---------------------------- MODULE Spec2Model ----------------------------
(***************************************************************************)
(* Model of the dublin-transit-stress batch pipeline: the per-day stage    *)
(* scripts (nightly_etl, join_daily, join_minute_with_weather, the three   *)
(* normalizers, the composite scorer, the census join), the free-flow      *)
(* rebuild, and the pure normalization curves they apply.                  *)
(*                                                                         *)
(* Numbers.  The scripts compute in floating point.  The model computes    *)
(* the same formulas in exact rational arithmetic: a number is a record    *)
(* [n |-> numerator, d |-> denominator] kept in lowest terms with d > 0,   *)
(* and d = 0 stands for NaN (pandas' missing float).  A nullable raw       *)
(* column value is << >> (missing) or <<v>>.                               *)
(***************************************************************************)
EXTENDS Integers, Sequences, FiniteSets, TLC

VARIABLES
    fin,      \* function-level harness: the argument(s) handed to a curve
    fout,     \* function-level harness: the result, "none" before the call
    fs,       \* data_live/ and data_hist/: day -> file name -> content
    free,     \* norm_codes/freeflow_95pct.parquet: Absent or the lookup table
    run,      \* what the last script invocation was and how it ended
    shapes,   \* gtfs_static/dublin_shapes.parquet: Absent or the shape table
    cache,    \* cache/segments.parquet: Absent or the segment table
    writes,   \* how many times cache/segments.parquet has been written
    pc        \* concurrent runs: each process's position and local values

geoVars == <<shapes, cache, writes, pc>>
vars == <<fin, fout, fs, free, run, geoVars>>

----------------------------------------------------------------------------
(* Exact rationals with NaN *)

Abs(x) == IF x < 0 THEN 0 - x ELSE x

RECURSIVE GCD(_, _)
GCD(a, b) == IF b = 0 THEN a ELSE GCD(b, a % b)

NaN == [n |-> 0, d |-> 0]
IsNaN(x) == x.d = 0

\* lowest terms, positive denominator
Q(n, d) ==
    IF d = 0 THEN NaN
    ELSE LET g == GCD(Abs(n), Abs(d))
             s == IF d < 0 THEN 0 - 1 ELSE 1
         IN  [n |-> (s * n) \div g, d |-> (s * d) \div g]

I(k) == [n |-> k, d |-> 1]

RAdd(a, b) == IF IsNaN(a) \/ IsNaN(b) THEN NaN
              ELSE LET g == GCD(a.d, b.d)
                   IN  Q(a.n * (b.d \div g) + b.n * (a.d \div g), (a.d \div g) * b.d)
RNeg(a)    == IF IsNaN(a) THEN NaN ELSE [n |-> 0 - a.n, d |-> a.d]
RSub(a, b) == RAdd(a, RNeg(b))
RMul(a, b) == IF IsNaN(a) \/ IsNaN(b) THEN NaN
              ELSE LET g1 == GCD(Abs(a.n), b.d)
                       g2 == GCD(Abs(b.n), a.d)
                       h1 == IF g1 = 0 THEN 1 ELSE g1
                       h2 == IF g2 = 0 THEN 1 ELSE g2
                   IN  Q((a.n \div h1) * (b.n \div h2), (a.d \div h2) * (b.d \div h1))
\* division by zero gives inf/NaN in numpy; no script divides by a value that
\* can be zero (the only variable divisor is clipped to >= 1e-3 first)
RDiv(a, b) == IF IsNaN(a) \/ IsNaN(b) \/ b.n = 0 THEN NaN
              ELSE RMul(a, Q(b.d, b.n))

\* IEEE comparisons: anything compared with NaN is false
RLe(a, b) == ~IsNaN(a) /\ ~IsNaN(b) /\ a.n * b.d <= b.n * a.d
RLt(a, b) == ~IsNaN(a) /\ ~IsNaN(b) /\ a.n * b.d <  b.n * a.d
RGe(a, b) == RLe(b, a)
RGt(a, b) == RLt(b, a)

\* np.minimum(a, b)
RMin(a, b) == IF IsNaN(a) \/ IsNaN(b) THEN NaN ELSE IF RLe(a, b) THEN a ELSE b
\* Series.clip(lower=lo)
RClipLower(a, lo) == IF IsNaN(a) THEN NaN ELSE IF RLt(a, lo) THEN lo ELSE a
\* Series.clip(lo, hi) / np.clip: NaN stays NaN
RClip(a, lo, hi) == IF IsNaN(a) THEN NaN
                    ELSE IF RLt(a, lo) THEN lo ELSE IF RGt(a, hi) THEN hi ELSE a

InUnit(x) == RLe(I(0), x) /\ RLe(x, I(1))

\* Series.fillna(v): a missing float is NaN
FillNa(x, v) == IF IsNaN(x) THEN v ELSE x

----------------------------------------------------------------------------
(* norm_codes/add_delay_norm.py: the piece-wise delay curve *)

\* bucket masks over d, the delay in minutes
delay_m1_strict(d) == RLt(d, I(5))
delay_m1(d) == RLe(d, I(5))
delay_m2(d) == RGt(d, I(5)) /\ RLe(d, I(15))
delay_m3(d) == RGt(d, I(15))

\* the three bucket formulas
delay_f1(d) == RMul(Q(30, 100), RDiv(d, I(5)))
delay_f2_steep(d) == RAdd(Q(30, 100), RMul(Q(40, 100), RDiv(RSub(d, I(5)), I(5))))
delay_f2(d) == RAdd(Q(30, 100), RMul(Q(40, 100), RDiv(RSub(d, I(5)), I(10))))
delay_f3(d) == RAdd(Q(70, 100),
                    RMul(Q(30, 100), RDiv(RMin(RSub(d, I(15)), I(45)), I(45))))

\* seconds -> minutes, missing delay read as 0
delay_minutes(delay_sec) == RDiv(FillNa(delay_sec, I(0)), I(60))

\* out starts at zero and each mask assigns its rows
delay_curve(d) ==
    LET out0 == I(0)
        out1 == IF delay_m1(d) THEN delay_f1(d) ELSE out0
        out2 == IF delay_m2(d) THEN delay_f2(d) ELSE out1
        out3 == IF delay_m3(d) THEN delay_f3(d) ELSE out2
    IN  out3

\* the bucket (1, 2, 3; 0 for none) whose mask selects d
delay_bucket(d) ==
    IF delay_m3(d) THEN 3 ELSE IF delay_m2(d) THEN 2 ELSE IF delay_m1(d) THEN 1 ELSE 0

delay_norm_noclip(delay_sec) == delay_curve(delay_minutes(delay_sec))

delay_norm_vec(delay_sec) ==
    RClip(delay_curve(delay_minutes(delay_sec)), I(0), I(1))

----------------------------------------------------------------------------
(* norm_codes/add_weather_norm.py: rain, heat and cold curves *)

rain_norm(r_mm) == RClip(RDiv(FillNa(r_mm, I(0)), I(3)), I(0), I(1))

heat_m1_halfopen(t) == RGe(t, I(18)) /\ RLt(t, I(21))
heat_m1(t) == RGt(t, I(18)) /\ RLe(t, I(21))
heat_m2(t) == RGt(t, I(21)) /\ RLe(t, I(24))
heat_m3(t) == RGt(t, I(24)) /\ RLe(t, I(27))
heat_m4(t) == RGt(t, I(27))

heat_norm(temp_c) ==
    LET t    == FillNa(temp_c, I(18))
        out0 == I(0)
        out1 == IF heat_m1(t)
                THEN RDiv(RMul(Q(30, 100), RSub(t, I(18))), I(3)) ELSE out0
        out2 == IF heat_m2(t)
                THEN RAdd(Q(30, 100), RDiv(RMul(Q(40, 100), RSub(t, I(21))), I(3)))
                ELSE out1
        out3 == IF heat_m3(t)
                THEN RAdd(Q(70, 100), RDiv(RMul(Q(30, 100), RSub(t, I(24))), I(3)))
                ELSE out2
        out4 == IF heat_m4(t) THEN I(1) ELSE out3
    IN  out4

cold_mask1_open(t) == RLt(t, I(10)) /\ RGt(t, I(5))
cold_mask1(t) == RLt(t, I(10)) /\ RGe(t, I(5))
cold_mask2(t) == RLt(t, I(5)) /\ RGe(t, I(0))
cold_mask3(t) == RLt(t, I(0))

cold_norm(temp_c) ==
    LET t    == FillNa(temp_c, I(15))
        out0 == I(0)
        out1 == IF cold_mask1(t)
                THEN RDiv(RMul(Q(30, 100), RSub(I(10), t)), I(5)) ELSE out0
        out2 == IF cold_mask2(t)
                THEN RAdd(Q(30, 100), RDiv(RMul(Q(40, 100), RSub(I(5), t)), I(5)))
                ELSE out1
        out3 == IF cold_mask3(t)
                THEN RAdd(Q(70, 100),
                          RDiv(RMul(Q(30, 100), RMin(RNeg(t), I(5))), I(5)))
                ELSE out2
    IN  out3

----------------------------------------------------------------------------
(* norm_codes/add_speed_norm.py: the speed deficit of one row *)

\* moving rows get 1 - speed/free clipped; dwell rows (and rows whose speed is
\* missing: NaN >= 5 is false) keep the default 0.0
speed_moving_strict(speed_kph) == RGt(speed_kph, I(5))
speed_moving(speed_kph) == RGe(speed_kph, I(5))

speed_norm_ratio(speed_kph, free_kph) ==
    IF speed_moving(speed_kph)
    THEN RClip(RDiv(speed_kph, RClipLower(free_kph, Q(1, 1000))), I(0), I(1))
    ELSE I(0)

speed_norm(speed_kph, free_kph) ==
    IF speed_moving(speed_kph)
    THEN RClip(RSub(I(1), RDiv(speed_kph, RClipLower(free_kph, Q(1, 1000)))),
               I(0), I(1))
    ELSE I(0)

----------------------------------------------------------------------------
(* norm_codes/add_stress_score.py: the weights and the composite *)

\* the preset the module is shipped with
W == [delay |-> Q(30, 100), speed |-> Q(30, 100), rain |-> Q(0, 100),
      heat |-> Q(15, 100), cold |-> Q(0, 100), vanish |-> Q(25, 100)]

\* the July preset of the module docstring
W_july == [delay |-> Q(40, 100), speed |-> Q(30, 100), rain |-> Q(10, 100),
           heat |-> Q(8, 100), cold |-> Q(2, 100), vanish |-> Q(10, 100)]

\* a half-applied reconfiguration: delay raised to the July value, the rest
\* left at the shipped preset (the weights then sum to 1.10)
W_mixed == [W EXCEPT !.delay = Q(40, 100)]

SumW(w) == RAdd(w.delay, RAdd(w.speed, RAdd(w.rain,
           RAdd(w.heat, RAdd(w.cold, w.vanish)))))

\* vanish_anchor.astype(float)
BoolAsFloat(b) == IF b THEN I(1) ELSE I(0)

row_stress_unweighted_heat(w, r) ==
    RAdd(RMul(w.delay, r.delay_norm),
    RAdd(RMul(w.speed, r.speed_norm),
    RAdd(RMul(w.rain, r.rain_norm),
    RAdd(r.heat_norm,
    RAdd(RMul(w.cold, r.cold_norm),
         RMul(w.vanish, BoolAsFloat(r.vanish_anchor)))))))

row_stress(w, r) ==
    RAdd(RMul(w.delay, r.delay_norm),
    RAdd(RMul(w.speed, r.speed_norm),
    RAdd(RMul(w.rain, r.rain_norm),
    RAdd(RMul(w.heat, r.heat_norm),
    RAdd(RMul(w.cold, r.cold_norm),
         RMul(w.vanish, BoolAsFloat(r.vanish_anchor)))))))

----------------------------------------------------------------------------
(* Function-level harness: Init draws the argument of one curve from a     *)
(* bounded set, the action applies the curve as the script does.           *)

MaxDelaySec == 4200       \* delays up to 70 minutes
MaxTempDeci == 450        \* temperatures up to 45.0 C, in tenths
GridSteps   == 4          \* normalized inputs k/GridSteps, k = 0..GridSteps
MaxColdDeci == 250        \* temperatures down to -25.0 C, in tenths
MaxSpeedDeci == 800       \* speeds up to 80.0 km/h, in tenths

\* delay_sec samples: every whole minute from -10 min, the seconds next to the
\* bucket edges (0, 5, 15, 60 min), and a missing reading
DelayEdges == {0, 300, 900, 3600}
DelaySecs  == {s \in (0 - 600)..MaxDelaySec :
                  \/ s % 60 = 0
                  \/ s = MaxDelaySec
                  \/ \E e \in DelayEdges : Abs(s - e) <= 1}
DelayArgs  == {I(s) : s \in DelaySecs} \cup {NaN}

\* temp_c samples: every half degree from -5.0 C, the tenths next to the
\* bucket edges, and a missing reading
HeatEdges == {180, 210, 240, 270}
TempDecis == {t \in (0 - 50)..MaxTempDeci :
                  \/ t % 5 = 0
                  \/ t = MaxTempDeci
                  \/ \E e \in HeatEdges : Abs(t - e) <= 1}
TempArgs  == {Q(t, 10) : t \in TempDecis} \cup {NaN}

\* temp_c samples for the cold curve: every half degree from the lower bound up
\* to 20.0 C, the tenths next to the bucket edges, and a missing reading
ColdEdges == {0 - 50, 0, 50, 100}
ColdDecis == {t \in (0 - MaxColdDeci)..200 :
                  \/ t % 5 = 0
                  \/ t = 0 - MaxColdDeci
                  \/ \E e \in ColdEdges : Abs(t - e) <= 1}
ColdArgs  == {Q(t, 10) : t \in ColdDecis} \cup {NaN}

\* speed_kph samples: every 5 km/h from 0, the tenths next to the dwell
\* threshold and to the sampled free-flow speeds, and a missing reading;
\* free_kph samples: absent (NaN after the left merge), zero, below and at the
\* 1e-3 floor, below the dwell threshold, and two ordinary values
SpeedEdges == {50, 357, 500}
SpeedDecis == {v \in 0..MaxSpeedDeci :
                  \/ v % 50 = 0
                  \/ v = MaxSpeedDeci
                  \/ \E e \in SpeedEdges : Abs(v - e) <= 1}
SpeedArgs  == {Q(v, 10) : v \in SpeedDecis} \cup {NaN}
FreeArgs   == {NaN, I(0), Q(1, 10000), Q(1, 1000), I(4), Q(357, 10), I(50)}

\* rows of veh_minute_dsw as the scorer reads them, every norm in [0,1]
UnitGrid  == {Q(k, GridSteps) : k \in 0..GridSteps}
NormRows  == [delay_norm : UnitGrid, speed_norm : UnitGrid, rain_norm : UnitGrid,
              heat_norm : UnitGrid, cold_norm : UnitGrid, vanish_anchor : BOOLEAN]
WeightConfigs == {W, W_july, W_mixed}

FnArgs ==
    {[kind |-> "delay", a |-> a, b |-> b] : a \in DelayArgs, b \in DelayArgs}
    \cup {[kind |-> "heat", t |-> t] : t \in TempArgs}
    \cup {[kind |-> "cold", t |-> t] : t \in ColdArgs}
    \cup {[kind |-> "speed", a |-> a, b |-> b, f |-> f] :
              a \in SpeedArgs, b \in SpeedArgs, f \in FreeArgs}
    \cup {[kind |-> "score", w |-> w, r |-> r] : w \in WeightConfigs, r \in NormRows}

Idle    == [kind |-> "idle"]
NotDone == [done |-> FALSE]

\* df["delay_norm"] = delay_norm_vec(df["delay_sec"]) on a two-row column
ApplyDelayNorm ==
    /\ fin.kind = "delay" /\ ~fout.done
    /\ fout' = [done |-> TRUE,
                a |-> delay_norm_vec(fin.a), b |-> delay_norm_vec(fin.b),
                bucket_a |-> delay_bucket(delay_minutes(fin.a)),
                bucket_b |-> delay_bucket(delay_minutes(fin.b))]
    /\ UNCHANGED <<fin, fs, free, run, geoVars>>

\* df["heat_norm"] = heat_norm(df["temp_c"])
ApplyHeatNorm ==
    /\ fin.kind = "heat" /\ ~fout.done
    /\ fout' = [done |-> TRUE, v |-> heat_norm(fin.t)]
    /\ UNCHANGED <<fin, fs, free, run, geoVars>>

\* df["cold_norm"] = cold_norm(df["temp_c"])
ApplyColdNorm ==
    /\ fin.kind = "cold" /\ ~fout.done
    /\ fout' = [done |-> TRUE, v |-> cold_norm(fin.t)]
    /\ UNCHANGED <<fin, fs, free, run, geoVars>>

\* the speed_norm column of two rows of one route/direction (one free_kph)
ApplySpeedNorm ==
    /\ fin.kind = "speed" /\ ~fout.done
    /\ fout' = [done |-> TRUE,
                a |-> speed_norm(fin.a, fin.f), b |-> speed_norm(fin.b, fin.f)]
    /\ UNCHANGED <<fin, fs, free, run, geoVars>>

\* df["row_stress"] = W[...] * df[...] + ...
ApplyScore ==
    /\ fin.kind = "score" /\ ~fout.done
    /\ fout' = [done |-> TRUE, row_stress |-> row_stress(fin.w, fin.r)]
    /\ UNCHANGED <<fin, fs, free, run, geoVars>>

----------------------------------------------------------------------------
(* Tables.  A parquet/CSV table is a sequence of rows (records); a file is *)
(* [exists |-> FALSE] or [exists |-> TRUE, rows |-> table].                *)
(* Coordinates: every modelled point lies on the meridian of the three     *)
(* weather anchors (lon = -6.26), so a latitude is held as metres north of *)
(* the "centre" anchor and the haversine distance of two points is the     *)
(* absolute difference of their northings.  A missing float is NaN.        *)

Absent      == [exists |-> FALSE]
File(rows)  == [exists |-> TRUE, rows |-> rows]

MapSeq(F(_), s) == [i \in 1..Len(s) |-> F(s[i])]

RECURSIVE Flatten(_)
Flatten(ss) == IF ss = << >> THEN << >> ELSE Head(ss) \o Flatten(Tail(ss))

\* stable insertion sort of s by Before(a, b) ("a sorts strictly before b")
RECURSIVE InsertSorted(_, _, _)
InsertSorted(Before(_, _), x, s) ==
    IF s = << >> THEN <<x>>
    ELSE IF Before(x, Head(s)) THEN <<x>> \o s
    ELSE <<Head(s)>> \o InsertSorted(Before, x, Tail(s))

RECURSIVE StableSort(_, _)
StableSort(Before(_, _), s) ==
    IF s = << >> THEN << >>
    ELSE InsertSorted(Before, s[Len(s)], StableSort(Before, SubSeq(s, 1, Len(s) - 1)))

Days == {"2025-07-14"}

NoRoute == "<NA>"        \* a missing route_id after the left merge

\* gtfs_static/dublin_trips.csv: trip_id -> route_id (trip "t9" is not listed)
TRIPS == [t \in {"t1", "t2"} |-> IF t = "t1" THEN "r1" ELSE "r2"]

\* one day of collected minute dumps, already concatenated per feed
RawVehicles ==
    << [vehicle_id |-> "v1", trip_id |-> "t1", direction_id |-> 0,
        timestamp |-> 5,   lat |-> I(0),   lon |-> I(0)],
       [vehicle_id |-> "v1", trip_id |-> "t1", direction_id |-> 0,
        timestamp |-> 65,  lat |-> I(500), lon |-> I(0)],
       [vehicle_id |-> "v1", trip_id |-> "t1", direction_id |-> 0,
        timestamp |-> 125, lat |-> I(1100), lon |-> I(0)],
       [vehicle_id |-> "v1", trip_id |-> "t1", direction_id |-> 0,
        timestamp |-> 605, lat |-> I(1120), lon |-> I(0)],
       [vehicle_id |-> "v2", trip_id |-> "t9", direction_id |-> 1,
        timestamp |-> 0,   lat |-> I(0 - 5000), lon |-> I(0)],
       [vehicle_id |-> "v2", trip_id |-> "t9", direction_id |-> 1,
        timestamp |-> 60,  lat |-> I(0 - 4700), lon |-> I(0)] >>

RawDelay ==
    << [trip_id |-> "t1", timestamp |-> 62,  delay_sec |-> I(900)],
       [trip_id |-> "t1", timestamp |-> 125, delay_sec |-> I(0 - 45)],
       [trip_id |-> "t9", timestamp |-> 60,  delay_sec |-> I(4000)] >>

RawWeather ==
    << [zone |-> "north",  timestamp |-> 0,   rain_mm |-> I(0), temp_c |-> I(17)],
       [zone |-> "centre", timestamp |-> 0,   rain_mm |-> Q(15, 10), temp_c |-> I(25)],
       [zone |-> "centre", timestamp |-> 900, rain_mm |-> I(4), temp_c |-> I(28)],
       [zone |-> "south",  timestamp |-> 900, rain_mm |-> I(0), temp_c |-> I(3)] >>

RawRows(label) ==
    CASE label = "vehicles" -> RawVehicles
      [] label = "weather"  -> RawWeather
      [] label = "delay"    -> RawDelay

----------------------------------------------------------------------------
(* nightly_etl.py: roll one day of raw minute dumps up into parquet *)

RawLabels == <<"vehicles", "weather", "delay">>      \* EXPECTED, in dict order

EXPECTED(label) ==
    CASE label = "vehicles" -> (24 * 60) \div 1
      [] label = "weather"  -> (24 * 60) \div 15
      [] label = "delay"    -> (24 * 60) \div 1

RAbs(x) == IF IsNaN(x) THEN NaN ELSE [n |-> Abs(x.n), d |-> x.d]

\* haversine(lat1, lon1, lat2, lon2) in metres, for two points of the anchors'
\* meridian (lon1 = lon2): the great-circle distance is the northing difference
haversine(lat1, lon1, lat2, lon2) ==
    IF IsNaN(lon1) \/ IsNaN(lon2) THEN NaN ELSE RAbs(RSub(lat2, lat1))

\* sort_values(["vehicle_id", "timestamp"]); the vehicle ids compare as the
\* sample's two ids do
VehBefore(a, b) ==
    \/ a.vehicle_id = "v1" /\ b.vehicle_id = "v2"
    \/ a.vehicle_id = b.vehicle_id /\ a.timestamp < b.timestamp

\* speed_kph of row i of the sorted vehicle table: from the previous row of the
\* same vehicle, NaN when there is none (or its position is missing)
SpeedAt(sorted, i) ==
    IF i = 1 \/ sorted[i - 1].vehicle_id # sorted[i].vehicle_id
             \/ IsNaN(sorted[i - 1].lat)
    THEN NaN
    ELSE LET prev == sorted[i - 1]
             cur  == sorted[i]
             dist == haversine(prev.lat, prev.lon, cur.lat, cur.lon)
             dt0  == cur.timestamp - prev.timestamp
             dt_s == IF dt0 < 1 THEN 1 ELSE dt0            \* .clip(lower=1)
         IN  RMul(RDiv(dist, I(dt_s)), Q(36, 10))

\* the parquet written for one feed
RollUp(label, rows) ==
    LET withUtc == MapSeq(LAMBDA r : r @@ [datetime_utc |-> r.timestamp], rows)
    IN  IF label = "vehicles" /\ rows # << >>
        THEN LET sorted == StableSort(VehBefore, withUtc)
             IN  [i \in 1..Len(sorted) |->
                     sorted[i] @@ [speed_kph |-> SpeedAt(sorted, i)]]
        ELSE withUtc

----------------------------------------------------------------------------
(* join_daily.py: vehicles + delay + trips -> veh_minute *)

TRIPS_CSV_exists == TRUE       \* the static lookup is part of the checkout

FloorMinute(ts) == (ts \div 60) * 60

\* veh.merge(trips, on="trip_id", how="left")
RouteOf(trip_id) == IF trip_id \in DOMAIN TRIPS THEN TRIPS[trip_id] ELSE NoRoute

\* index.map(d_lookup): the delay reading of the same trip and minute, else NaN
DelayLookup(delay, trip_id, ts_min) ==
    LET hits == SelectSeq(delay, LAMBDA d : d.trip_id = trip_id
                                          /\ FloorMinute(d.timestamp) = ts_min)
    IN  IF hits = << >> THEN NaN ELSE hits[1].delay_sec

JoinDailyRows(veh, delay) ==
    MapSeq(LAMBDA r :
             [vehicle_id |-> r.vehicle_id, trip_id |-> r.trip_id,
              route_id |-> RouteOf(r.trip_id), direction_id |-> r.direction_id,
              timestamp |-> r.timestamp, datetime_utc |-> r.datetime_utc,
              lat |-> r.lat, lon |-> r.lon, speed_kph |-> r.speed_kph,
              delay_sec |-> DelayLookup(delay, r.trip_id, FloorMinute(r.timestamp))],
           veh)

----------------------------------------------------------------------------
(* join_minute_with_weather.py: zone tagging and the nearest-time merge *)

ZoneNames == <<"north", "centre", "south">>          \* list(ZONES)

\* ZONES[z] as a northing: 53.38, 53.34 and 53.29 degrees of latitude are
\* 4448 m north of, at, and 5560 m south of the centre anchor
ZONES(z) ==
    CASE z = "north"  -> [lat |-> I(4448),     lon |-> I(0)]
      [] z = "centre" -> [lat |-> I(0),        lon |-> I(0)]
      [] z = "south"  -> [lat |-> I(0 - 5560), lon |-> I(0)]

hav_km(lat1, lon1, lat2, lon2) == RDiv(haversine(lat1, lon1, lat2, lon2), I(1000))

ArgMin_last(xs) ==
    IF \E i \in 1..Len(xs) : IsNaN(xs[i])
    THEN CHOOSE i \in 1..Len(xs) : IsNaN(xs[i]) /\ \A j \in 1..(i - 1) : ~IsNaN(xs[j])
    ELSE CHOOSE i \in 1..Len(xs) :
             /\ \A j \in 1..Len(xs) : RLe(xs[i], xs[j])
             /\ \A j \in (i + 1)..Len(xs) : ~RLe(xs[j], xs[i])

\* np.argmin over a column: the first NaN if there is one, else the first minimum
ArgMin(xs) ==
    IF \E i \in 1..Len(xs) : IsNaN(xs[i])
    THEN CHOOSE i \in 1..Len(xs) : IsNaN(xs[i]) /\ \A j \in 1..(i - 1) : ~IsNaN(xs[j])
    ELSE CHOOSE i \in 1..Len(xs) :
             /\ \A j \in 1..Len(xs) : RLe(xs[i], xs[j])
             /\ \A j \in 1..(i - 1) : ~RLe(xs[j], xs[i])

ZoneOf(lat, lon) ==
    ZoneNames[ArgMin([k \in 1..Len(ZoneNames) |->
                         hav_km(lat, lon, ZONES(ZoneNames[k]).lat,
                                ZONES(ZoneNames[k]).lon)])]

TOLERANCE_S == 450            \* pd.Timedelta("7min30s")

NearestIdx_notolerance(minute, w_z) ==
    LET back == {i \in 1..Len(w_z) : w_z[i].minute <= minute}
        forw == {i \in 1..Len(w_z) : w_z[i].minute >= minute}
        b    == CHOOSE i \in back : \A j \in back : j <= i
        f    == CHOOSE i \in forw : \A j \in forw : i <= j
    IN  IF back = {} /\ forw = {} THEN 0
        ELSE IF forw = {} THEN b
        ELSE IF back = {} THEN f
        ELSE IF minute - w_z[b].minute <= w_z[f].minute - minute THEN b ELSE f

\* merge_asof(direction="nearest", tolerance=...) for one left minute against
\* the zone's weather sorted by minute: the last record at or before it and the
\* first at or after it, each within the tolerance; the backward one on a tie.
\* 0 when neither exists
NearestIdx(minute, w_z) ==
    LET back == {i \in 1..Len(w_z) : /\ w_z[i].minute <= minute
                                     /\ minute - w_z[i].minute <= TOLERANCE_S}
        forw == {i \in 1..Len(w_z) : /\ w_z[i].minute >= minute
                                     /\ w_z[i].minute - minute <= TOLERANCE_S}
        b    == CHOOSE i \in back : \A j \in back : j <= i
        f    == CHOOSE i \in forw : \A j \in forw : i <= j
    IN  IF back = {} /\ forw = {} THEN 0
        ELSE IF forw = {} THEN b
        ELSE IF back = {} THEN f
        ELSE IF minute - w_z[b].minute <= w_z[f].minute - minute THEN b ELSE f

MinuteBefore(a, b) == a.minute < b.minute

\* Europe/Dublin is UTC+1 on every modelled (July) day
datetime_ie(timestamp) == timestamp + 3600

NoZone == "<NA>"         \* a missing zone_w

MergeAsofRows_global(v, w) ==
    LET vz == MapSeq(LAMBDA r : r @@ [zone |-> ZoneOf(r.lat, r.lon),
                                     minute |-> FloorMinute(r.timestamp)], v)
        wm == MapSeq(LAMBDA r : r @@ [minute |-> FloorMinute(r.timestamp)], w)
        Part(z) ==
            LET grp == StableSort(MinuteBefore, SelectSeq(vz, LAMBDA r : r.zone = z))
                w_z == StableSort(MinuteBefore, wm)
            IN  MapSeq(LAMBDA r :
                         LET k == NearestIdx(r.minute, w_z)
                         IN  r @@ [timestamp_w |-> IF k = 0 THEN NaN
                                                   ELSE I(w_z[k].timestamp),
                                   zone_w  |-> IF k = 0 THEN NoZone ELSE w_z[k].zone,
                                   datetime_utc_w |-> IF k = 0 THEN NaN
                                                      ELSE I(w_z[k].datetime_utc),
                                   rain_mm |-> IF k = 0 THEN NaN ELSE w_z[k].rain_mm,
                                   temp_c  |-> IF k = 0 THEN NaN ELSE w_z[k].temp_c],
                       grp)
    IN  Flatten([k \in 1..Len(ZoneNames) |-> Part(ZoneNames[k])])

\* the zone column and the minute stamps, then the per-zone merge_asof and the
\* concat of the parts: the columns both sides have (timestamp, zone,
\* datetime_utc) come out of the right side with the suffix _w, and every
\* right-side column is null when no record is matched
MergeAsofRows(v, w) ==
    LET vz == MapSeq(LAMBDA r : r @@ [zone |-> ZoneOf(r.lat, r.lon),
                                     minute |-> FloorMinute(r.timestamp)], v)
        wm == MapSeq(LAMBDA r : r @@ [minute |-> FloorMinute(r.timestamp)], w)
        Part(z) ==
            LET grp == StableSort(MinuteBefore, SelectSeq(vz, LAMBDA r : r.zone = z))
                w_z == StableSort(MinuteBefore, SelectSeq(wm, LAMBDA r : r.zone = z))
            IN  MapSeq(LAMBDA r :
                         LET k == NearestIdx(r.minute, w_z)
                         IN  r @@ [timestamp_w |-> IF k = 0 THEN NaN
                                                   ELSE I(w_z[k].timestamp),
                                   zone_w  |-> IF k = 0 THEN NoZone ELSE w_z[k].zone,
                                   datetime_utc_w |-> IF k = 0 THEN NaN
                                                      ELSE I(w_z[k].datetime_utc),
                                   rain_mm |-> IF k = 0 THEN NaN ELSE w_z[k].rain_mm,
                                   temp_c  |-> IF k = 0 THEN NaN ELSE w_z[k].temp_c],
                       grp)
    IN  Flatten([k \in 1..Len(ZoneNames) |-> Part(ZoneNames[k])])

\* DataFrame.drop(columns=..., errors="ignore")
DropColumns(r, cols) == [c \in (DOMAIN r) \ cols |-> r[c]]

JoinWeatherRows(v, w) ==
    MapSeq(LAMBDA r : DropColumns(r @@ [datetime_ie |-> datetime_ie(r.timestamp)],
                                  {"timestamp_w", "zone_w", "datetime_utc_w"}),
           MergeAsofRows(v, w))

----------------------------------------------------------------------------
(* Table-level harness of the weather join: Init draws a veh_minute table  *)
(* and a weather table from bounded sets, the action joins them as         *)
(* join_minute_with_weather.main does between reading and writing.         *)

MaxVehRows     == 2       \* rows of the veh_minute table
MaxWeatherRows == 3       \* rows of the weather table

VehRow(id, ts, lat, lon) ==
    [vehicle_id |-> id, trip_id |-> "t1", route_id |-> "r1", direction_id |-> 0,
     timestamp |-> ts, datetime_utc |-> ts, lat |-> lat, lon |-> lon,
     speed_kph |-> NaN, delay_sec |-> NaN]

\* timestamps falling in the minutes 0, 420, 480, 1260 and 1320 s; northings
\* at the centre anchor, on the north/centre and centre/south midpoints, near
\* the south anchor, and missing; one row with a missing longitude
VehTimes == <<15, 450, 485, 1270, 1325>>
VehLats  == <<I(0), I(2224), I(0 - 2780), I(0 - 5000), NaN>>
VehPoints ==
    Flatten([i \in 1..Len(VehTimes) |->
               [j \in 1..Len(VehLats) |->
                   [timestamp |-> VehTimes[i], lat |-> VehLats[j], lon |-> I(0)]]])
    \o << [timestamp |-> 450, lat |-> I(0), lon |-> NaN] >>

VehIds == <<"v1", "v2", "v3", "v4">>

\* a table of n rows, row k being vehicle VehIds[k] at point VehPoints[ix[k]]
VehTables ==
    UNION {
      {[k \in 1..n |-> VehRow(VehIds[k], VehPoints[ix[k]].timestamp,
                              VehPoints[ix[k]].lat, VehPoints[ix[k]].lon)] :
          ix \in {jx \in [1..n -> 1..Len(VehPoints)] :
                     \A k \in 1..(n - 1) : jx[k] <= jx[k + 1]}} :
      n \in 1..MaxVehRows }

\* the weather records a day may hold, each with its own rain_mm; the centre
\* zone has records in the minutes 0 and 840 s, listed out of time order
WeatherCands ==
    << [zone |-> "centre", timestamp |-> 845, datetime_utc |-> 845,
        rain_mm |-> I(3), temp_c |-> I(20)],
       [zone |-> "north",  timestamp |-> 0,   datetime_utc |-> 0,
        rain_mm |-> I(1), temp_c |-> I(11)],
       [zone |-> "centre", timestamp |-> 30,  datetime_utc |-> 30,
        rain_mm |-> I(2), temp_c |-> I(12)],
       [zone |-> "south",  timestamp |-> 480, datetime_utc |-> 480,
        rain_mm |-> I(4), temp_c |-> I(14)],
       [zone |-> "north",  timestamp |-> 490, datetime_utc |-> 490,
        rain_mm |-> I(5), temp_c |-> I(15)] >>

WeatherTables ==
    {SelectSeq(WeatherCands, LAMBDA c : c \in keep) :
        keep \in {k \in SUBSET {WeatherCands[i] : i \in 1..Len(WeatherCands)} :
                     Cardinality(k) <= MaxWeatherRows}}

JoinArgs == {[kind |-> "join", v |-> v, w |-> w] :
                v \in VehTables, w \in WeatherTables}

\* v, w = read_parquet(...); zone tagging; merge; concat; drop
ApplyJoinWeather ==
    /\ fin.kind = "join" /\ ~fout.done
    /\ fout' = [done |-> TRUE,
                merged |-> MergeAsofRows(fin.v, fin.w),
                rows |-> JoinWeatherRows(fin.v, fin.w)]
    /\ UNCHANGED <<fin, fs, free, run, geoVars>>

----------------------------------------------------------------------------
(* The vanished-trip detector is not part of the repository: it turns       *)
(* veh_minute_w into veh_minute_w_vanished by adding the boolean            *)
(* vanish_anchor, true on at most the last observed minute of a trip.       *)

VanishChoices == {{}, {"t1"}}      \* the trips the detector flags

IsLastMinute(rows, r) ==
    \A q \in {rows[i] : i \in 1..Len(rows)} :
        (q.vehicle_id = r.vehicle_id /\ q.trip_id = r.trip_id)
            => q.timestamp <= r.timestamp

VanishedRows(rows, flagged) ==
    MapSeq(LAMBDA r : r @@ [vanish_anchor |->
                               r.trip_id \in flagged /\ IsLastMinute(rows, r)],
           rows)

----------------------------------------------------------------------------
(* The three normalizers, the scorer and the census join, table by table *)

AddDelayNormRows(df) ==
    MapSeq(LAMBDA r : r @@ [delay_norm |-> delay_norm_vec(r.delay_sec)], df)

\* the free-flow rows of one route/direction
FreeHits(freeRows, route_id, direction_id) ==
    SelectSeq(freeRows, LAMBDA f : f.route_id = route_id
                                 /\ f.direction_id = direction_id)

MergeFree_inner(df, freeRows) ==
    Flatten(MapSeq(LAMBDA r :
        MapSeq(LAMBDA f : r @@ [free_kph |-> f.free_kph],
               FreeHits(freeRows, r.route_id, r.direction_id)),
        df))

\* df.merge(free, on=["route_id", "direction_id"], how="left"): one row per
\* matching free-flow row, and one with a null free_kph when there is none
MergeFree(df, freeRows) ==
    Flatten(MapSeq(LAMBDA r :
        LET hits == FreeHits(freeRows, r.route_id, r.direction_id)
        IN  IF hits = << >> THEN << r @@ [free_kph |-> NaN] >>
            ELSE MapSeq(LAMBDA f : r @@ [free_kph |-> f.free_kph], hits),
        df))

AddSpeedNormRows(df, freeRows) ==
    MapSeq(LAMBDA r : r @@ [speed_norm |-> speed_norm(r.speed_kph, r.free_kph)],
           MergeFree(df, freeRows))

AddWeatherNormRows(df) ==
    MapSeq(LAMBDA r : r @@ [rain_norm |-> rain_norm(r.rain_mm),
                             heat_norm |-> heat_norm(r.temp_c),
                             cold_norm |-> cold_norm(r.temp_c)], df)

AddStressScoreRows(w, df) ==
    MapSeq(LAMBDA r : r @@ [row_stress |-> row_stress(w, r)], df)

\* gtfs_static/census/dublin_ed_trimmed.geojson, cut by the meridian: each
\* polygon is the open interval of northings it covers
ED_POLYS ==
    << [ED_ID_STR |-> "ed1", lo |-> I(0 - 1000), hi |-> I(1000)],
       [ED_ID_STR |-> "ed2", lo |-> I(1000),     hi |-> I(3000)] >>

\* a polygon file in which two polygons overlap: ed3 covers the upper half of
\* ed2 as well
ED_POLYS_OVERLAP ==
    ED_POLYS \o << [ED_ID_STR |-> "ed3", lo |-> I(1500), hi |-> I(3500)] >>

\* predicate="within": strictly inside (a point on the boundary is not within)
Within(lat, poly) == RLt(poly.lo, lat) /\ RLt(lat, poly.hi)

\* gpd.sjoin(points, gdf_poly, how="inner", predicate="within"): one output
\* row per (point, containing polygon) pair
JoinPointsToEdRows(df, gdf_poly) ==
    Flatten(MapSeq(LAMBDA r :
        MapSeq(LAMBDA p : [timestamp |-> r.timestamp, lat |-> r.lat, lon |-> r.lon,
                           row_stress |-> r.row_stress, route_id |-> r.route_id,
                           direction_id |-> r.direction_id,
                           ED_ID_STR |-> p.ED_ID_STR],
               SelectSeq(gdf_poly, LAMBDA p : Within(r.lat, p))),
        df))

----------------------------------------------------------------------------
(* norm_codes/build_freeflow.py: the 95th-percentile free-flow table *)

FREE_MIN_KPH == 10

RatBefore(a, b) == RLt(a, b)

\* Series.quantile(0.95), linear interpolation, of a non-empty sample
Quantile95(xs) ==
    LET s    == StableSort(RatBefore, xs)
        n    == Len(s)
        lo   == (19 * (n - 1)) \div 20
        frac == Q((19 * (n - 1)) % 20, 20)
    IN  IF lo + 2 <= n
        THEN RAdd(s[lo + 1], RMul(frac, RSub(s[lo + 2], s[lo + 1])))
        ELSE s[lo + 1]

RouteIds == <<"r1", "r2">>          \* sorted group keys
DirIds   == <<0, 1>>

\* variant: the filter df["speed_kph"] > 10
FreeflowRows_strict(df) ==
    LET moving == SelectSeq(df, LAMBDA r : RGt(r.speed_kph, I(FREE_MIN_KPH)))
        keys   == Flatten([i \in 1..Len(RouteIds) |->
                             [j \in 1..Len(DirIds) |->
                                 [route_id |-> RouteIds[i], direction_id |-> DirIds[j]]]])
        Grp(k) == SelectSeq(moving, LAMBDA r : r.route_id = k.route_id
                                            /\ r.direction_id = k.direction_id)
        seen   == SelectSeq(keys, LAMBDA k : Grp(k) # << >>)
    IN  MapSeq(LAMBDA k : [route_id |-> k.route_id, direction_id |-> k.direction_id,
                           free_kph |-> Quantile95(MapSeq(LAMBDA r : r.speed_kph,
                                                          Grp(k)))],
               seen)

FreeflowRows(df) ==
    LET moving == SelectSeq(df, LAMBDA r : RGe(r.speed_kph, I(FREE_MIN_KPH)))
        keys   == Flatten([i \in 1..Len(RouteIds) |->
                             [j \in 1..Len(DirIds) |->
                                 [route_id |-> RouteIds[i], direction_id |-> DirIds[j]]]])
        Grp(k) == SelectSeq(moving, LAMBDA r : r.route_id = k.route_id
                                            /\ r.direction_id = k.direction_id)
        seen   == SelectSeq(keys, LAMBDA k : Grp(k) # << >>)
    IN  MapSeq(LAMBDA k : [route_id |-> k.route_id, direction_id |-> k.direction_id,
                           free_kph |-> Quantile95(MapSeq(LAMBDA r : r.speed_kph,
                                                          Grp(k)))],
               seen)

----------------------------------------------------------------------------
(* The file system and the stage scripts.                                  *)
(* fs[day] = [raw      |-> data_live/<day>: whether it exists and how many *)
(*                         CSV dumps each feed holds,                      *)
(*            hist_dir |-> whether data_hist/<day> exists,                 *)
(*            tab      |-> the parquet tables under data_hist/<day>]       *)
(* Every script is a function from the file system (and its command line)  *)
(* to the file system it leaves and the way it ended:                      *)
(*   "skipped"  the existence guard returned,                              *)
(*   "fatal"    sys.exit / SystemExit with a message,                      *)
(*   "usage"    argparse rejected the command line (exit status 2),        *)
(*   "crash"    an uncaught exception,                                     *)
(*   "ok"       ran to its last line.                                      *)

TableNames == {"vehicles", "weather", "delay", "veh_minute", "veh_minute_w",
               "veh_minute_w_vanished", "veh_minute_d", "veh_minute_ds",
               "veh_minute_dsw", "veh_minute_scored", "veh_minute_ed"}

NoTables == [t \in TableNames |-> Absent]

Exists(fsys, day, name) == fsys[day].tab[name].exists
Rows(fsys, day, name)   == fsys[day].tab[name].rows
WriteTab(fsys, day, name, rows) == [fsys EXCEPT ![day].tab[name] = File(rows)]

Result(fsys, outcome) == [fs |-> fsys, outcome |-> outcome]

\* the rows of the CSV dumps a feed holds: all of the day's when the feed is
\* complete, the first n when only n dumps were collected
RawRowsOf(label, n) ==
    IF n >= EXPECTED(label) THEN RawRows(label)
    ELSE SubSeq(RawRows(label), 1, IF n < Len(RawRows(label)) THEN n
                                   ELSE Len(RawRows(label)))

\* nightly_etl.py main(); it has no --overwrite option
RECURSIVE nightly_loop(_, _, _, _)
nightly_loop(fsys, day, allow_partial, k) ==
    IF k > Len(RawLabels) THEN fsys
    ELSE LET label == RawLabels[k]
             n     == fsys[day].raw.nfiles[label]
         IN  IF n = 0 THEN nightly_loop(fsys, day, allow_partial, k + 1)
             ELSE IF n < EXPECTED(label) /\ ~allow_partial
             THEN nightly_loop(fsys, day, allow_partial, k + 1)
             ELSE nightly_loop(
                      WriteTab(fsys, day, label, RollUp(label, RawRowsOf(label, n))),
                      day, allow_partial, k + 1)

nightly_etl_main(fsys, day, allow_partial, overwrite) ==
    IF overwrite THEN Result(fsys, "usage")
    ELSE IF fsys[day].hist_dir THEN Result(fsys, "skipped")
    ELSE IF ~fsys[day].raw.exists THEN Result(fsys, "fatal")
    ELSE Result(nightly_loop([fsys EXCEPT ![day].hist_dir = TRUE],
                             day, allow_partial, 1), "ok")

\* join_daily.py main()
join_daily_main(fsys, day, overwrite) ==
    IF Exists(fsys, day, "veh_minute") /\ ~overwrite THEN Result(fsys, "skipped")
    ELSE IF ~Exists(fsys, day, "vehicles") \/ ~Exists(fsys, day, "delay")
            \/ ~TRIPS_CSV_exists
    THEN Result(fsys, "fatal")
    ELSE Result(WriteTab(fsys, day, "veh_minute",
                         JoinDailyRows(Rows(fsys, day, "vehicles"),
                                       Rows(fsys, day, "delay"))), "ok")

\* join_minute_with_weather.py main(); its cli() knows --date only
join_minute_with_weather_main(fsys, day, overwrite) ==
    IF overwrite THEN Result(fsys, "usage")
    ELSE IF Exists(fsys, day, "veh_minute_w") THEN Result(fsys, "skipped")
    ELSE IF ~Exists(fsys, day, "veh_minute") \/ ~Exists(fsys, day, "weather")
    THEN Result(fsys, "fatal")
    ELSE Result(WriteTab(fsys, day, "veh_minute_w",
                         JoinWeatherRows(Rows(fsys, day, "veh_minute"),
                                         Rows(fsys, day, "weather"))), "ok")

\* variant: a rebuild that also removes the table of the next stage
add_delay_norm_cascade(fsys, day, overwrite) ==
    IF Exists(fsys, day, "veh_minute_d") /\ ~overwrite THEN Result(fsys, "skipped")
    ELSE IF ~Exists(fsys, day, "veh_minute_w_vanished") THEN Result(fsys, "fatal")
    ELSE Result([WriteTab(fsys, day, "veh_minute_d",
                          AddDelayNormRows(Rows(fsys, day, "veh_minute_w_vanished")))
                    EXCEPT ![day].tab["veh_minute_ds"] = Absent],
                "ok")

add_delay_norm_noguard(fsys, day, overwrite) ==
    IF ~Exists(fsys, day, "veh_minute_w_vanished") THEN Result(fsys, "fatal")
    ELSE Result(WriteTab(fsys, day, "veh_minute_d",
                         AddDelayNormRows(Rows(fsys, day, "veh_minute_w_vanished"))),
                "ok")

\* add_delay_norm.py main()
add_delay_norm_main(fsys, day, overwrite) ==
    IF Exists(fsys, day, "veh_minute_d") /\ ~overwrite THEN Result(fsys, "skipped")
    ELSE IF ~Exists(fsys, day, "veh_minute_w_vanished") THEN Result(fsys, "fatal")
    ELSE Result(WriteTab(fsys, day, "veh_minute_d",
                         AddDelayNormRows(Rows(fsys, day, "veh_minute_w_vanished"))),
                "ok")

\* add_speed_norm.py main()
add_speed_norm_main(fsys, freeflow, day, overwrite) ==
    IF Exists(fsys, day, "veh_minute_ds") /\ ~overwrite THEN Result(fsys, "skipped")
    ELSE IF ~Exists(fsys, day, "veh_minute_d") \/ ~freeflow.exists
    THEN Result(fsys, "fatal")
    ELSE Result(WriteTab(fsys, day, "veh_minute_ds",
                         AddSpeedNormRows(Rows(fsys, day, "veh_minute_d"),
                                          freeflow.rows)), "ok")

\* add_weather_norm.py main()
add_weather_norm_main(fsys, day, overwrite) ==
    IF Exists(fsys, day, "veh_minute_dsw") /\ ~overwrite THEN Result(fsys, "skipped")
    ELSE IF ~Exists(fsys, day, "veh_minute_ds") THEN Result(fsys, "fatal")
    ELSE Result(WriteTab(fsys, day, "veh_minute_dsw",
                         AddWeatherNormRows(Rows(fsys, day, "veh_minute_ds"))), "ok")

\* add_stress_score.py main(), the module constant W being w
\* variant: the input check ahead of the output guard
add_stress_score_inputfirst(fsys, w, day, overwrite) ==
    IF ~Exists(fsys, day, "veh_minute_dsw") THEN Result(fsys, "fatal")
    ELSE IF Exists(fsys, day, "veh_minute_scored") /\ ~overwrite
    THEN Result(fsys, "skipped")
    ELSE Result(WriteTab(fsys, day, "veh_minute_scored",
                         AddStressScoreRows(w, Rows(fsys, day, "veh_minute_dsw"))),
                "ok")

add_stress_score_main(fsys, w, day, overwrite) ==
    IF Exists(fsys, day, "veh_minute_scored") /\ ~overwrite
    THEN Result(fsys, "skipped")
    ELSE IF ~Exists(fsys, day, "veh_minute_dsw") THEN Result(fsys, "fatal")
    ELSE Result(WriteTab(fsys, day, "veh_minute_scored",
                         AddStressScoreRows(w, Rows(fsys, day, "veh_minute_dsw"))),
                "ok")

\* join_points_to_ed.py main()
\* variant: one run joins every day that has a scored table
join_points_to_ed_alldays(fsys, day, overwrite) ==
    IF Exists(fsys, day, "veh_minute_ed") /\ ~overwrite THEN Result(fsys, "skipped")
    ELSE IF ~Exists(fsys, day, "veh_minute_scored") THEN Result(fsys, "fatal")
    ELSE Result([d \in DOMAIN fsys |->
                    IF Exists(fsys, d, "veh_minute_scored")
                    THEN WriteTab(fsys, d, "veh_minute_ed",
                                  JoinPointsToEdRows(Rows(fsys, d, "veh_minute_scored"),
                                                     ED_POLYS))[d]
                    ELSE fsys[d]],
                "ok")

join_points_to_ed_main(fsys, day, overwrite) ==
    IF Exists(fsys, day, "veh_minute_ed") /\ ~overwrite THEN Result(fsys, "skipped")
    ELSE IF ~Exists(fsys, day, "veh_minute_scored") THEN Result(fsys, "fatal")
    ELSE Result(WriteTab(fsys, day, "veh_minute_ed",
                         JoinPointsToEdRows(Rows(fsys, day, "veh_minute_scored"),
                                            ED_POLYS)),
                "ok")

\* build_freeflow.py (a script without main): FILES is every July day that has
\* a veh_minute_d table; pd.concat of an empty list raises ValueError
DayOrder == <<"2025-07-14", "2025-07-15">>   \* sorted(HIST.glob("2025-07-*/..."))

build_freeflow_main(fsys, freeflow) ==
    LET FILES == SelectSeq(DayOrder, LAMBDA d : /\ d \in DOMAIN fsys
                                                /\ Exists(fsys, d, "veh_minute_d"))
        df    == Flatten(MapSeq(LAMBDA d : Rows(fsys, d, "veh_minute_d"), FILES))
    IN  IF FILES = << >> THEN [free |-> freeflow, outcome |-> "crash"]
        ELSE [free |-> File(FreeflowRows(df)), outcome |-> "ok"]

----------------------------------------------------------------------------
(* norm_codes/geo/segment_utils.py and the dashboard's corridor helper.    *)
(* A segment of a shape running along the meridian is the closed interval  *)
(* [lo, hi] of northings it covers.  Geometries are built in EPSG:4326, so *)
(* the planar distance sjoin_nearest reports is in degrees of latitude.    *)

ShapeIds == <<"sA", "sB">>         \* sorted group keys
ShapeRank(sid) == CHOOSE i \in 1..Len(ShapeIds) : ShapeIds[i] = sid

\* sort_values(["shape_id", "seq"])
ShapeBefore(a, b) ==
    \/ ShapeRank(a.shape_id) < ShapeRank(b.shape_id)
    \/ a.shape_id = b.shape_id /\ a.seq < b.seq

\* LineString([p, q]) on the meridian: the northings from p to q
LineString(p, q) == [lo |-> IF RLe(p, q) THEN p ELSE q,
                     hi |-> IF RLe(p, q) THEN q ELSE p]

\* variant: one segment per point, the last one closing the shape
BuildSegmentRows_closed(shp0) ==
    LET shp     == StableSort(ShapeBefore, shp0)
        pts(sid) == SelectSeq(shp, LAMBDA r : r.shape_id = sid)
        SegsOf(sid) ==
            [i \in 1..Len(pts(sid)) |->
                [segment_id |-> sid \o "_" \o ToString(i - 1),
                 shape_id |-> sid, seq |-> i - 1]
                @@ LineString(pts(sid)[i].lat,
                              pts(sid)[(i % Len(pts(sid))) + 1].lat)]
    IN  Flatten([k \in 1..Len(ShapeIds) |-> SegsOf(ShapeIds[k])])

\* build_segments, the rows of the loop over the shapes: for the i-th and
\* (i+1)-th point of a shape, i counted from 0, the segment "{sid}_{i}"
BuildSegmentRows(shp0) ==
    LET shp     == StableSort(ShapeBefore, shp0)
        pts(sid) == SelectSeq(shp, LAMBDA r : r.shape_id = sid)
        SegsOf(sid) ==
            [i \in 1..(Len(pts(sid)) - 1) |->
                [segment_id |-> sid \o "_" \o ToString(i - 1),
                 shape_id |-> sid, seq |-> i - 1]
                @@ LineString(pts(sid)[i].lat, pts(sid)[i + 1].lat)]
    IN  Flatten([k \in 1..Len(ShapeIds) |-> SegsOf(ShapeIds[k])])

\* variant: no look at the cache, every call builds and writes
build_segments_nocache(shapefile, cachefile) ==
    IF ~shapefile.exists
    THEN [cache |-> cachefile, outcome |-> "crash", seg |-> << >>,
          read_shapes |-> FALSE, wrote |-> FALSE]
    ELSE LET rows == BuildSegmentRows(shapefile.rows)
         IN  IF rows = << >>
             THEN [cache |-> cachefile, outcome |-> "crash", seg |-> << >>,
                   read_shapes |-> TRUE, wrote |-> FALSE]
             ELSE [cache |-> File(rows), outcome |-> "ok", seg |-> rows,
                   read_shapes |-> TRUE, wrote |-> TRUE]

\* build_segments(): the cached table when the cache file exists, else the
\* table built from the shape file and written to the cache.  Reading a
\* missing shape file raises, and so does GeoDataFrame(rows, crs=...) when
\* rows is empty (no geometry column to give the CRS to): the call crashes
\* and writes nothing.
build_segments(shapefile, cachefile) ==
    IF cachefile.exists
    THEN [cache |-> cachefile, outcome |-> "ok", seg |-> cachefile.rows,
          read_shapes |-> FALSE, wrote |-> FALSE]
    ELSE IF ~shapefile.exists
    THEN [cache |-> cachefile, outcome |-> "crash", seg |-> << >>,
          read_shapes |-> FALSE, wrote |-> FALSE]
    ELSE LET rows == BuildSegmentRows(shapefile.rows)
         IN  IF rows = << >>
             THEN [cache |-> cachefile, outcome |-> "crash", seg |-> << >>,
                   read_shapes |-> TRUE, wrote |-> FALSE]
             ELSE [cache |-> File(rows), outcome |-> "ok", seg |-> rows,
                   read_shapes |-> TRUE, wrote |-> TRUE]

METRES_PER_DEGREE == 111195        \* one degree of latitude, R = 6371 km
MAX_DIST_M == 50                   \* snap_minutes(..., max_dist_m=50)

NoSegment == "<NA>"

\* metres on the ground between a point and a segment of the meridian
GroundDist(lat, seg) ==
    IF IsNaN(lat) THEN NaN
    ELSE IF RLt(lat, seg.lo) THEN RSub(seg.lo, lat)
    ELSE IF RGt(lat, seg.hi) THEN RSub(lat, seg.hi)
    ELSE I(0)

\* the same distance in the units of the frame's CRS
CrsDist(lat, lon, seg) ==
    IF IsNaN(lon) THEN NaN ELSE RDiv(GroundDist(lat, seg), I(METRES_PER_DEGREE))

\* sjoin_nearest(how="left", distance_col="dist_m"): one row per nearest
\* segment (every one of them on a tie), a null row for a point with no
\* nearest segment; then the rows with dist_m <= max_dist_m
snap_minutes(df_minute, segments, max_dist_m) ==
    LET joined ==
          Flatten(MapSeq(LAMBDA r :
            LET d(sg) == CrsDist(r.lat, r.lon, sg)
                near  == SelectSeq(segments, LAMBDA sg :
                            /\ ~IsNaN(d(sg))
                            /\ \A k \in 1..Len(segments) : RLe(d(sg), d(segments[k])))
            IN  IF near = << >>
                THEN << r @@ [segment_id |-> NoSegment, dist_m |-> NaN] >>
                ELSE MapSeq(LAMBDA sg : r @@ [segment_id |-> sg.segment_id,
                                              dist_m |-> d(sg)], near),
            df_minute))
    IN  SelectSeq(joined, LAMBDA j : RLe(j.dist_m, I(max_dist_m)))

RECURSIVE RSum(_)
RSum(xs) == IF xs = << >> THEN I(0) ELSE RAdd(Head(xs), RSum(Tail(xs)))

\* Series.mean(): over the non-null values, null when there is none
Mean(xs) ==
    LET vals == SelectSeq(xs, LAMBDA x : ~IsNaN(x))
    IN  IF vals = << >> THEN NaN ELSE RDiv(RSum(vals), I(Len(vals)))

\* (s > thr).mean() / .sum(): a null value compares false
CountAbove(xs, thr) == Len(SelectSeq(xs, LAMBDA x : RGt(x, thr)))

\* app.py corridor_stats_filtered: per snapped segment the mean row_stress and
\* the share above thr, merged back onto the segment table
corridor_stats_filtered(filtered_df, segs, thr) ==
    LET snapped == snap_minutes(filtered_df, segs, MAX_DIST_M)
        Grp(id) == MapSeq(LAMBDA j : j.row_stress,
                          SelectSeq(snapped, LAMBDA j : j.segment_id = id))
        seen    == SelectSeq(segs, LAMBDA sg : Grp(sg.segment_id) # << >>)
    IN  MapSeq(LAMBDA sg :
                 sg @@ [avg_stress |-> Mean(Grp(sg.segment_id)),
                        pct_hi |-> Q(CountAbove(Grp(sg.segment_id), thr),
                                     Len(Grp(sg.segment_id)))],
               seen)

\* app.py load_eds(): the census polygons with ED_ID_STR renamed to ed_id
load_eds(geo) ==
    MapSeq(LAMBDA p : [ed_id |-> p.ED_ID_STR, lo |-> p.lo, hi |-> p.hi], geo)

NoEd == "<NA>"

\* Series.max(): over the non-null values, null when there is none
Max(xs) ==
    LET vals == SelectSeq(xs, LAMBDA x : ~IsNaN(x))
    IN  IF vals = << >> THEN NaN
        ELSE vals[CHOOSE i \in 1..Len(vals) : \A j \in 1..Len(vals) : RLe(vals[j], vals[i])]

\* app.py ed_stress_agg, geo being the polygon file, df0 the concatenated
\* [lat, lon, row_stress] of the chosen days and thr null (NaN) or a number.  The result is "ok" with
\* one row per polygon, or "crash".  With metric "%>threshold" and no point
\* inside any polygon, groupby("ed_id").apply(...) has no group to apply to
\* and returns an empty frame instead of a series, so no count_hi column is
\* ever merged and the selection out[["n", "count_hi"]] raises.
ed_stress_agg(geo, df0, metric, thr) ==
    LET eds  == load_eds(geo)
        df   == SelectSeq(df0, LAMBDA r : ~IsNaN(r.lat) /\ ~IsNaN(r.lon))
        join == Flatten(MapSeq(LAMBDA r :
                   LET hits == SelectSeq(eds, LAMBDA p : Within(r.lat, p))
                   IN  IF hits = << >>
                       THEN << [row_stress |-> r.row_stress, ed_id |-> NoEd] >>
                       ELSE MapSeq(LAMBDA p : [row_stress |-> r.row_stress,
                                               ed_id |-> p.ed_id], hits),
                   df))
        g(id) == MapSeq(LAMBDA j : j.row_stress,
                        SelectSeq(join, LAMBDA j : j.ed_id = id))
        n(id) == Len(g(id))
        t     == IF IsNaN(thr) THEN Q(50, 100) ELSE thr
        groups == SelectSeq(eds, LAMBDA p : n(p.ed_id) > 0)
    IN  IF df = << >>
        THEN [outcome |-> "ok",
              rows |-> MapSeq(LAMBDA p : p @@ [value |-> I(0), n |-> 0,
                                               count_hi |-> 0, share_hi |-> I(0)],
                              eds)]
        ELSE IF metric = "Avg"
        THEN [outcome |-> "ok",
              rows |-> MapSeq(LAMBDA p :
                          p @@ [value |-> IF n(p.ed_id) = 0 THEN I(0)
                                          ELSE FillNa(Mean(g(p.ed_id)), I(0)),
                                n |-> n(p.ed_id),
                                count_hi |-> 0, share_hi |-> I(0)],
                          eds)]
        ELSE IF metric = "Max"
        THEN [outcome |-> "ok",
              rows |-> MapSeq(LAMBDA p :
                          p @@ [value |-> IF n(p.ed_id) = 0 THEN I(0)
                                          ELSE FillNa(Max(g(p.ed_id)), I(0)),
                                n |-> n(p.ed_id),
                                count_hi |-> 0, share_hi |-> I(0)],
                          eds)]
        ELSE IF groups = << >>
        THEN [outcome |-> "crash", rows |-> << >>]
        ELSE [outcome |-> "ok",
              rows |-> MapSeq(LAMBDA p :
                          LET c  == CountAbove(g(p.ed_id), t)
                              sh == FillNa(Q(c, n(p.ed_id)), I(0))
                          IN  p @@ [n |-> n(p.ed_id), count_hi |-> c,
                                    share_hi |-> sh, value |-> sh],
                          eds)]

----------------------------------------------------------------------------
(* Harness of the dashboard helpers and of the table builders: Init draws  *)
(* the input frame and the helper's arguments from bounded sets.           *)

MaxSnapPoints == 2        \* rows of the filtered frame handed to the snap

\* a shape table of two shapes, in file order
ShapeSample ==
    << [shape_id |-> "sB", seq |-> 1, lat |-> I(1000), lon |-> I(0)],
       [shape_id |-> "sA", seq |-> 2, lat |-> I(100),  lon |-> I(0)],
       [shape_id |-> "sA", seq |-> 1, lat |-> I(0),    lon |-> I(0)],
       [shape_id |-> "sB", seq |-> 2, lat |-> I(1100), lon |-> I(0)],
       [shape_id |-> "sA", seq |-> 3, lat |-> I(200),  lon |-> I(0)] >>

\* its three segments: sA_0 and sA_1 share the point at 100 m
SegmentSample == BuildSegmentRows(ShapeSample)

SegmentTables == {<< >>, SegmentSample}

\* northings on a segment, on the shared end point, 50 m, 51 m and 400 m from
\* the nearest segment, and missing
SnapLats == <<I(50), I(100), I(250), I(251), I(600), NaN>>
StressSamples == <<Q(1, 4), Q(3, 4)>>
SnapPoints ==
    Flatten([i \in 1..Len(SnapLats) |->
               [j \in 1..Len(StressSamples) |->
                   [lat |-> SnapLats[i], lon |-> I(0),
                    row_stress |-> StressSamples[j]]]])

\* a frame of n rows, row k carrying the row label k
SnapFrames ==
    UNION {
      {[k \in 1..n |-> SnapPoints[ix[k]] @@ [row |-> k]] :
          ix \in [1..n -> 1..Len(SnapPoints)]} :
      n \in 0..MaxSnapPoints }

MaxAggPoints == 2         \* scored rows handed to the polygon aggregation

\* northings inside ed1, inside ed2, on their common boundary, outside both,
\* and missing; row_stress low, high, and null
AggLats   == <<I(0), I(2000), I(1000), I(5000), NaN>>
AggStress == <<Q(1, 4), Q(3, 4), NaN>>
AggPoints ==
    Flatten([i \in 1..Len(AggLats) |->
               [j \in 1..Len(AggStress) |->
                   [lat |-> AggLats[i], lon |-> I(0), row_stress |-> AggStress[j]]]])
AggFrames ==
    UNION { {[k \in 1..n |-> AggPoints[ix[k]]] :
                ix \in [1..n -> 1..Len(AggPoints)]} : n \in 0..MaxAggPoints }

Metrics == {"Avg", "Max", "%>threshold"}

\* the polygon file: polygons that only share a boundary, or with an overlap
PolygonSets == {ED_POLYS, ED_POLYS_OVERLAP}

\* scored vehicle-minutes handed to the census join, one minute per row
ScoredFrames ==
    UNION { {[k \in 1..n |-> [timestamp |-> k, lat |-> AggLats[ix[k]], lon |-> I(0),
                              row_stress |-> Q(1, 4), route_id |-> "r1",
                              direction_id |-> 0]] :
                ix \in [1..n -> 1..Len(AggLats)]} : n \in 0..MaxAggPoints }

MaxFreeSamples == 3       \* speed samples handed to the free-flow quantile

\* speeds missing, below the 10 km/h floor, on it, and above it
FreeSpeeds == <<NaN, I(5), I(10), I(30), I(50)>>
FreeKeys   == <<[route_id |-> "r1", direction_id |-> 0],
                [route_id |-> "r2", direction_id |-> 1]>>
FreeSamples ==
    Flatten([i \in 1..Len(FreeSpeeds) |->
               [j \in 1..Len(FreeKeys) |->
                   FreeKeys[j] @@ [speed_kph |-> FreeSpeeds[i]]]])
FreeFrames ==
    UNION { {[k \in 1..n |-> FreeSamples[ix[k]]] :
                ix \in [1..n -> 1..Len(FreeSamples)]} : n \in 0..MaxFreeSamples }

AppArgs ==
    {[kind |-> "snap", df |-> df, segs |-> sg, thr |-> Q(1, 2)] :
        df \in SnapFrames, sg \in SegmentTables}
    \cup {[kind |-> "ed_agg", geo |-> geo, df |-> df, metric |-> m, thr |-> th] :
              geo \in PolygonSets, df \in AggFrames, m \in Metrics,
              th \in {NaN, Q(7, 10)}}
    \cup {[kind |-> "ed_join", geo |-> geo, df |-> df] :
              geo \in PolygonSets, df \in ScoredFrames}
    \cup {[kind |-> "freeflow", df |-> df] : df \in FreeFrames}

\* corridor_stats_filtered(filtered_df, thr)
ApplyCorridorStats ==
    /\ fin.kind = "snap" /\ ~fout.done
    /\ fout' = [done |-> TRUE,
                snapped |-> snap_minutes(fin.df, fin.segs, MAX_DIST_M),
                stats |-> corridor_stats_filtered(fin.df, fin.segs, fin.thr)]
    /\ UNCHANGED <<fin, fs, free, run, geoVars>>

\* ed_stress_agg(days, metric, thr) on the scored rows of the chosen days
ApplyEdStressAgg ==
    /\ fin.kind = "ed_agg" /\ ~fout.done
    /\ fout' = [done |-> TRUE] @@ ed_stress_agg(fin.geo, fin.df, fin.metric, fin.thr)
    /\ UNCHANGED <<fin, fs, free, run, geoVars>>

\* build_freeflow.py on the concatenated speed samples of the month
ApplyFreeflow ==
    /\ fin.kind = "freeflow" /\ ~fout.done
    /\ fout' = [done |-> TRUE, rows |-> FreeflowRows(fin.df)]
    /\ UNCHANGED <<fin, fs, free, run, geoVars>>

\* the spatial join of join_points_to_ed.py on the scored rows of one day
ApplyJoinPointsToEd ==
    /\ fin.kind = "ed_join" /\ ~fout.done
    /\ fout' = [done |-> TRUE, joined |-> JoinPointsToEdRows(fin.df, fin.geo)]
    /\ UNCHANGED <<fin, fs, free, run, geoVars>>

----------------------------------------------------------------------------
(* The pipeline as a state machine: any script, for any day, with any      *)
(* command line, in any order.                                             *)

NoFeeds == [l \in {"vehicles", "weather", "delay"} |-> 0]
AllFeeds == [l \in {"vehicles", "weather", "delay"} |-> EXPECTED(l)]

\* what the collectors left under data_live/<day>
RawScenarios ==
    { [exists |-> FALSE, nfiles |-> NoFeeds],                      \* did not run
      [exists |-> TRUE,  nfiles |-> AllFeeds],                     \* complete day
      [exists |-> TRUE,  nfiles |-> [AllFeeds EXCEPT !["weather"] = 0]],
      [exists |-> TRUE,  nfiles |-> [AllFeeds EXCEPT !["delay"] = 2]] }

\* the weights the scorer module may hold when it is run
DeployedWeights == {W, W_mixed}

\* no shape table, no cache and no concurrent run: the state of the geo
\* files in the specifications that do not touch them
NoProcs == << >>
GeoIdle == shapes = Absent /\ cache = Absent /\ writes = 0 /\ pc = NoProcs

NoRun == [stage |-> "none", day |-> "none", overwrite |-> FALSE, outcome |-> "none"]
Ran(stage, day, overwrite, outcome) ==
    [stage |-> stage, day |-> day, overwrite |-> overwrite, outcome |-> outcome]

Init ==
    /\ fin = Idle
    /\ fout = NotDone
    /\ fs \in [Days -> {[raw |-> r, hist_dir |-> FALSE, tab |-> NoTables] :
                           r \in RawScenarios}]
    /\ free = Absent
    /\ run = NoRun
    /\ GeoIdle

NightlyEtl(day, allow_partial, overwrite) ==
    LET res == nightly_etl_main(fs, day, allow_partial, overwrite)
    IN  /\ fs' = res.fs
        /\ run' = Ran("nightly_etl", day, overwrite, res.outcome)
        /\ UNCHANGED <<fin, fout, free, geoVars>>

JoinDaily(day, overwrite) ==
    LET res == join_daily_main(fs, day, overwrite)
    IN  /\ fs' = res.fs
        /\ run' = Ran("join_daily", day, overwrite, res.outcome)
        /\ UNCHANGED <<fin, fout, free, geoVars>>

JoinMinuteWithWeather(day, overwrite) ==
    LET res == join_minute_with_weather_main(fs, day, overwrite)
    IN  /\ fs' = res.fs
        /\ run' = Ran("join_minute_with_weather", day, overwrite, res.outcome)
        /\ UNCHANGED <<fin, fout, free, geoVars>>

\* the external detector (re)writes veh_minute_w_vanished from veh_minute_w
DetectVanished(day, flagged) ==
    /\ Exists(fs, day, "veh_minute_w")
    /\ fs' = WriteTab(fs, day, "veh_minute_w_vanished",
                      VanishedRows(Rows(fs, day, "veh_minute_w"), flagged))
    /\ run' = Ran("vanish_detector", day, TRUE, "ok")
    /\ UNCHANGED <<fin, fout, free, geoVars>>

AddDelayNorm(day, overwrite) ==
    LET res == add_delay_norm_main(fs, day, overwrite)
    IN  /\ fs' = res.fs
        /\ run' = Ran("add_delay_norm", day, overwrite, res.outcome)
        /\ UNCHANGED <<fin, fout, free, geoVars>>

BuildFreeflow ==
    LET res == build_freeflow_main(fs, free)
    IN  /\ free' = res.free
        /\ run' = Ran("build_freeflow", "none", FALSE, res.outcome)
        /\ UNCHANGED <<fin, fout, fs, geoVars>>

AddSpeedNorm(day, overwrite) ==
    LET res == add_speed_norm_main(fs, free, day, overwrite)
    IN  /\ fs' = res.fs
        /\ run' = Ran("add_speed_norm", day, overwrite, res.outcome)
        /\ UNCHANGED <<fin, fout, free, geoVars>>

AddWeatherNorm(day, overwrite) ==
    LET res == add_weather_norm_main(fs, day, overwrite)
    IN  /\ fs' = res.fs
        /\ run' = Ran("add_weather_norm", day, overwrite, res.outcome)
        /\ UNCHANGED <<fin, fout, free, geoVars>>

\* the scorer runs with whatever weights its module constant W holds then
AddStressScore(day, overwrite, w) ==
    LET res == add_stress_score_main(fs, w, day, overwrite)
    IN  /\ fs' = res.fs
        /\ run' = Ran("add_stress_score", day, overwrite, res.outcome) @@ [w |-> w]
        /\ UNCHANGED <<fin, fout, free, geoVars>>

JoinPointsToEd(day, overwrite) ==
    LET res == join_points_to_ed_main(fs, day, overwrite)
    IN  /\ fs' = res.fs
        /\ run' = Ran("join_points_to_ed", day, overwrite, res.outcome)
        /\ UNCHANGED <<fin, fout, free, geoVars>>

Next ==
    \/ \E day \in Days, ap \in BOOLEAN, ow \in BOOLEAN : NightlyEtl(day, ap, ow)
    \/ \E day \in Days, ow \in BOOLEAN : JoinDaily(day, ow)
    \/ \E day \in Days, ow \in BOOLEAN : JoinMinuteWithWeather(day, ow)
    \/ \E day \in Days, flagged \in VanishChoices : DetectVanished(day, flagged)
    \/ \E day \in Days, ow \in BOOLEAN : AddDelayNorm(day, ow)
    \/ BuildFreeflow
    \/ \E day \in Days, ow \in BOOLEAN : AddSpeedNorm(day, ow)
    \/ \E day \in Days, ow \in BOOLEAN : AddWeatherNorm(day, ow)
    \/ \E day \in Days, ow \in BOOLEAN, w \in DeployedWeights : AddStressScore(day, ow, w)
    \/ \E day \in Days, ow \in BOOLEAN : JoinPointsToEd(day, ow)

Spec == Init /\ [][Next]_vars

----------------------------------------------------------------------------
(* The function-level specification *)

InitFn ==
    /\ fin \in FnArgs
    /\ fout = NotDone
    /\ fs = [d \in Days |-> [raw |-> [exists |-> FALSE, nfiles |-> NoFeeds],
                             hist_dir |-> FALSE, tab |-> NoTables]]
    /\ free = Absent
    /\ run = NoRun
    /\ GeoIdle

NextFn ==
    \/ ApplyDelayNorm
    \/ ApplyHeatNorm
    \/ ApplyColdNorm
    \/ ApplySpeedNorm
    \/ ApplyScore

SpecFn == InitFn /\ [][NextFn]_vars

\* the table-level specification of the weather join
InitJoin ==
    /\ fin \in JoinArgs
    /\ fout = NotDone
    /\ fs = [d \in Days |-> [raw |-> [exists |-> FALSE, nfiles |-> NoFeeds],
                             hist_dir |-> FALSE, tab |-> NoTables]]
    /\ free = Absent
    /\ run = NoRun
    /\ GeoIdle

NextJoin == ApplyJoinWeather

SpecJoin == InitJoin /\ [][NextJoin]_vars

\* the specification of the dashboard helpers
InitApp ==
    /\ fin \in AppArgs
    /\ fout = NotDone
    /\ fs = [d \in Days |-> [raw |-> [exists |-> FALSE, nfiles |-> NoFeeds],
                             hist_dir |-> FALSE, tab |-> NoTables]]
    /\ free = Absent
    /\ run = NoRun
    /\ GeoIdle

NextApp ==
    \/ ApplyCorridorStats
    \/ ApplyEdStressAgg
    \/ ApplyJoinPointsToEd
    \/ ApplyFreeflow

SpecApp == InitApp /\ [][NextApp]_vars

----------------------------------------------------------------------------
(* The segment cache as a state machine: the dashboard calls               *)
(* build_segments() when it starts and again in every corridor ranking.    *)

MaxShapePoints == 3       \* rows of the shape table
MaxCacheWrites == 3       \* writes of the cache file the model follows

\* shape points: two shapes, sequence numbers 1..3, northings 0 and 100 m
ShapePoints ==
    {[shape_id |-> ShapeIds[i], seq |-> q, lat |-> I(y), lon |-> I(0)] :
        i \in 1..Len(ShapeIds), q \in 1..3, y \in {0, 100}}

\* shape tables in any file order, (shape_id, seq) unique as GTFS requires
ShapeTables ==
    UNION { {t \in [1..n -> ShapePoints] :
                \A a, b \in 1..n :
                    (t[a].shape_id = t[b].shape_id /\ t[a].seq = t[b].seq) => a = b} :
            n \in 0..MaxShapePoints }

\* the frames the corridor ranking is asked for
GeoFrames == {<< >>, << SnapPoints[1] @@ [row |-> 1] >>}

Called(site, b) ==
    Ran(site, "none", FALSE, b.outcome)
        @@ [read_shapes |-> b.read_shapes, wrote |-> b.wrote, seg |-> b.seg]

\* app.py, module level: SEGMENTS = build_segments()
AppStart ==
    LET b == build_segments(shapes, cache)
    IN  /\ writes < MaxCacheWrites
        /\ cache' = b.cache
        /\ writes' = writes + (IF b.wrote THEN 1 ELSE 0)
        /\ run' = Called("app_start", b)
        /\ UNCHANGED <<fin, fout, fs, free, shapes, pc>>

\* app.py corridor_stats_filtered(filtered_df, thr): build_segments() again,
\* then the snap and the per-segment statistics
CorridorStatsFiltered(df, thr) ==
    LET b == build_segments(shapes, cache)
    IN  /\ writes < MaxCacheWrites
        /\ cache' = b.cache
        /\ writes' = writes + (IF b.wrote THEN 1 ELSE 0)
        /\ run' = Called("corridor_stats_filtered", b)
        /\ fout' = IF b.outcome = "ok"
                   THEN [done |-> TRUE,
                         stats |-> corridor_stats_filtered(df, b.seg, thr)]
                   ELSE [done |-> FALSE]
        /\ UNCHANGED <<fin, fs, free, shapes, pc>>


\* the segment cache under the dashboard's calls, one call at a time; the
\* cache is absent or left by an earlier start of the dashboard
InitGeo ==
    /\ fin = Idle
    /\ fout = NotDone
    /\ fs = [d \in Days |-> [raw |-> [exists |-> FALSE, nfiles |-> NoFeeds],
                             hist_dir |-> FALSE, tab |-> NoTables]]
    /\ free = Absent
    /\ run = NoRun
    /\ shapes \in {Absent} \cup {File(t) : t \in ShapeTables}
    /\ cache \in {Absent, File(SegmentSample)}
    /\ writes = 0
    /\ pc = NoProcs

NextGeo ==
    \/ AppStart
    \/ \E df \in GeoFrames : CorridorStatsFiltered(df, Q(1, 2))

SpecGeo == InitGeo /\ [][NextGeo]_vars

----------------------------------------------------------------------------
(* Runs that overlap in time: two dashboard sessions in build_segments(),  *)
(* build_freeflow.py and add_speed_norm.py, each advancing one file        *)
(* operation at a time.  DataFrame.to_parquet(path) opens path for writing *)
(* (the file exists from then on, without a footer) and completes it when  *)
(* it closes it.                                                           *)

HalfWritten == [exists |-> TRUE, halfwritten |-> TRUE]
Complete(f) == f.exists /\ "rows" \in DOMAIN f

SegProcs  == {"app1", "app2"}
RaceProcs == {"app1", "app2", "build_freeflow", "add_speed_norm"}
RaceDay   == "2025-07-14"

\* a process before its first step: found is what its existence check of
\* the shared file said, got what its read of that file returned
AtStart == [at |-> "start", found |-> FALSE, got |-> "none", rows |-> << >>,
            clash |-> FALSE]

\* the day's tables up to veh_minute_d, as the earlier stages left them
RaceFs ==
    LET f0 == [d \in Days |-> [raw |-> [exists |-> TRUE, nfiles |-> AllFeeds],
                               hist_dir |-> FALSE, tab |-> NoTables]]
        f1 == nightly_etl_main(f0, RaceDay, FALSE, FALSE).fs
        f2 == join_daily_main(f1, RaceDay, FALSE).fs
        f3 == join_minute_with_weather_main(f2, RaceDay, FALSE).fs
        f4 == WriteTab(f3, RaceDay, "veh_minute_w_vanished",
                       VanishedRows(Rows(f3, RaceDay, "veh_minute_w"), {}))
    IN  add_delay_norm_main(f4, RaceDay, FALSE).fs

\* the free-flow table built from them, and the day's tables of the later
\* stages
BuiltFree == build_freeflow_main(RaceFs, Absent).free
FullFs ==
    LET f6 == add_speed_norm_main(RaceFs, BuiltFree, RaceDay, FALSE).fs
        f7 == add_weather_norm_main(f6, RaceDay, FALSE).fs
        f8 == add_stress_score_main(f7, W, RaceDay, FALSE).fs
    IN  join_points_to_ed_main(f8, RaceDay, FALSE).fs

\* a free-flow table left by an earlier build
OldFree == File(<< [route_id |-> "r1", direction_id |-> 0, free_kph |-> I(40)] >>)

\* build_segments(): if CACHE.exists()
SegCheck(p) ==
    /\ pc[p].at = "start"
    /\ pc' = [pc EXCEPT ![p].at = IF cache.exists THEN "load" ELSE "build",
                        ![p].found = cache.exists]
    /\ UNCHANGED <<fin, fout, fs, free, run, shapes, cache, writes>>

\* build_segments(): return gpd.read_parquet(CACHE); reading a file that has
\* no footer yet raises
SegLoad(p) ==
    /\ pc[p].at = "load"
    /\ pc' = [pc EXCEPT ![p].at = "done",
                        ![p].got = IF Complete(cache) THEN "complete" ELSE "halfwritten",
                        ![p].rows = IF Complete(cache) THEN cache.rows ELSE << >>]
    /\ UNCHANGED <<fin, fout, fs, free, run, shapes, cache, writes>>

\* build_segments(): read the shape table and build the rows in memory
SegBuild(p) ==
    /\ pc[p].at = "build"
    /\ LET rows == IF shapes.exists THEN BuildSegmentRows(shapes.rows) ELSE << >>
       IN  pc' = IF rows = << >>
                 THEN [pc EXCEPT ![p].at = "done", ![p].got = "crash"]
                 ELSE [pc EXCEPT ![p].at = "write", ![p].rows = rows]
    /\ UNCHANGED <<fin, fout, fs, free, run, shapes, cache, writes>>

\* seg.to_parquet(CACHE) opens the cache file; two writers on the one file
\* from here on are a clash
SegOpen(p) ==
    /\ pc[p].at = "write"
    /\ cache' = HalfWritten
    /\ pc' = [q \in DOMAIN pc |->
                IF q = p
                THEN [pc[q] EXCEPT !.at = "writing",
                                   !.clash = \E o \in SegProcs \ {p} :
                                                pc[o].at = "writing"]
                ELSE IF q \in SegProcs /\ pc[q].at = "writing"
                THEN [pc[q] EXCEPT !.clash = TRUE]
                ELSE pc[q]]
    /\ UNCHANGED <<fin, fout, fs, free, run, shapes, writes>>

\* seg.to_parquet(CACHE) closes the file: complete, unless another writer is
\* still at it; after a clash the bytes of the two writers may be mixed
SegClose(p) ==
    /\ pc[p].at = "writing"
    /\ cache' \in IF \E o \in SegProcs \ {p} : pc[o].at = "writing"
                  THEN {HalfWritten}
                  ELSE IF pc[p].clash THEN {File(pc[p].rows), HalfWritten}
                  ELSE {File(pc[p].rows)}
    /\ writes' = writes + 1
    /\ pc' = [pc EXCEPT ![p].at = "done", ![p].got = "built"]
    /\ UNCHANGED <<fin, fout, fs, free, run, shapes>>

\* build_freeflow.py lines 6-18: read the month, filter, take the quantile
FfCompute ==
    LET p   == "build_freeflow"
        res == build_freeflow_main(fs, free)
    IN  /\ pc[p].at = "start"
        /\ pc' = IF res.outcome = "ok"
                  THEN [pc EXCEPT ![p].at = "write1", ![p].rows = res.free.rows]
                  ELSE [pc EXCEPT ![p].at = "done", ![p].got = "crash"]
        /\ UNCHANGED <<fin, fout, fs, free, run, shapes, cache, writes>>

\* build_freeflow.py lines 19 and 23: to_parquet opens the table, twice
FfOpen ==
    LET p == "build_freeflow"
    IN  /\ pc[p].at \in {"write1", "write2"}
        /\ free' = HalfWritten
        /\ pc' = [pc EXCEPT ![p].at = IF pc[p].at = "write1" THEN "writing1"
                                                             ELSE "writing2"]
        /\ UNCHANGED <<fin, fout, fs, run, shapes, cache, writes>>

\* ... and closes it
FfClose ==
    LET p == "build_freeflow"
    IN  /\ pc[p].at \in {"writing1", "writing2"}
        /\ free' = File(pc[p].rows)
        /\ pc' = IF pc[p].at = "writing1"
                  THEN [pc EXCEPT ![p].at = "write2"]
                  ELSE [pc EXCEPT ![p].at = "done", ![p].got = "built"]
        /\ UNCHANGED <<fin, fout, fs, run, shapes, cache, writes>>

\* add_speed_norm.py lines 44-47: the output guard, then the two inputs
SpCheck(overwrite) ==
    LET p == "add_speed_norm"
    IN  /\ pc[p].at = "start"
        /\ pc' = IF Exists(fs, RaceDay, "veh_minute_ds") /\ ~overwrite
                  THEN [pc EXCEPT ![p].at = "done", ![p].got = "skipped"]
                  ELSE IF ~Exists(fs, RaceDay, "veh_minute_d") \/ ~free.exists
                  THEN [pc EXCEPT ![p].at = "done", ![p].got = "fatal"]
                  ELSE [pc EXCEPT ![p].at = "read", ![p].found = TRUE]
        /\ UNCHANGED <<fin, fout, fs, free, run, shapes, cache, writes>>

\* add_speed_norm.py line 50: pd.read_parquet(FREE_PQT)
SpRead ==
    LET p == "add_speed_norm"
    IN  /\ pc[p].at = "read"
        /\ pc' = IF Complete(free)
                  THEN [pc EXCEPT ![p].at = "merge", ![p].got = "complete",
                                  ![p].rows = free.rows]
                  ELSE [pc EXCEPT ![p].at = "done", ![p].got = "halfwritten"]
        /\ UNCHANGED <<fin, fout, fs, free, run, shapes, cache, writes>>

\* add_speed_norm.py lines 52-63: merge, speed_norm, write the day's table
SpWrite ==
    LET p == "add_speed_norm"
    IN  /\ pc[p].at = "merge"
        /\ fs' = WriteTab(fs, RaceDay, "veh_minute_ds",
                          AddSpeedNormRows(Rows(fs, RaceDay, "veh_minute_d"),
                                           pc[p].rows))
        /\ pc' = [pc EXCEPT ![p].at = "done"]
        /\ UNCHANGED <<fin, fout, free, run, shapes, cache, writes>>

InitRace ==
    /\ fin = Idle
    /\ fout = NotDone
    /\ \E scored \in BOOLEAN :
          fs = IF scored THEN WriteTab(RaceFs, RaceDay, "veh_minute_ds", << >>)
                         ELSE RaceFs
    /\ free \in {Absent, OldFree}
    /\ run = NoRun
    /\ shapes \in {File(ShapeSample), File(<< >>)}
    /\ cache \in {Absent, File(SegmentSample)}
    /\ writes = 0
    /\ pc = [p \in RaceProcs |-> AtStart]

NextRace ==
    \/ \E p \in SegProcs : SegCheck(p)
    \/ \E p \in SegProcs : SegLoad(p)
    \/ \E p \in SegProcs : SegBuild(p)
    \/ \E p \in SegProcs : SegOpen(p)
    \/ \E p \in SegProcs : SegClose(p)
    \/ FfCompute
    \/ FfOpen
    \/ FfClose
    \/ \E ow \in BOOLEAN : SpCheck(ow)
    \/ SpRead
    \/ SpWrite

SpecRace == InitRace /\ [][NextRace]_vars

----------------------------------------------------------------------------
(* The stages on a day that was fully built and from which files were      *)
(* removed afterwards (intermediate tables cleaned up, the raw dumps       *)
(* archived, the free-flow table deleted).                                 *)

MaxRemoved == 3           \* tables removed from the built day

\* the built day without the tables K, and without its raw dumps
Cleaned(full, K, rawgone) ==
    [d \in Days |->
        [raw      |-> IF rawgone THEN [exists |-> FALSE, nfiles |-> NoFeeds]
                                 ELSE full[d].raw,
         hist_dir |-> full[d].hist_dir,
         tab      |-> [t \in TableNames |->
                          IF t \in K THEN Absent ELSE full[d].tab[t]]]]

InitGuard ==
    /\ fin = Idle
    /\ fout = NotDone
    /\ free \in {Absent, BuiltFree}
    /\ \E full \in {FullFs},
          K \in {k \in SUBSET TableNames : Cardinality(k) <= MaxRemoved},
          rawgone \in BOOLEAN :
          fs = Cleaned(full, K, rawgone)
    /\ run = NoRun
    /\ GeoIdle

\* the first run of any script after the clean-up
NextGuard ==
    \/ run = NoRun /\ \E day \in Days, ap \in BOOLEAN, ow \in BOOLEAN :
                          NightlyEtl(day, ap, ow)
    \/ run = NoRun /\ \E day \in Days, ow \in BOOLEAN : JoinDaily(day, ow)
    \/ run = NoRun /\ \E day \in Days, ow \in BOOLEAN : JoinMinuteWithWeather(day, ow)
    \/ run = NoRun /\ \E day \in Days, flagged \in VanishChoices :
                          DetectVanished(day, flagged)
    \/ run = NoRun /\ \E day \in Days, ow \in BOOLEAN : AddDelayNorm(day, ow)
    \/ run = NoRun /\ BuildFreeflow
    \/ run = NoRun /\ \E day \in Days, ow \in BOOLEAN : AddSpeedNorm(day, ow)
    \/ run = NoRun /\ \E day \in Days, ow \in BOOLEAN : AddWeatherNorm(day, ow)
    \/ run = NoRun /\ \E day \in Days, ow \in BOOLEAN, w \in DeployedWeights :
                          AddStressScore(day, ow, w)
    \/ run = NoRun /\ \E day \in Days, ow \in BOOLEAN : JoinPointsToEd(day, ow)

SpecGuard == InitGuard /\ [][NextGuard]_vars

----------------------------------------------------------------------------
(* Two days side by side, each built up to some stage of the chain, and    *)
(* one run of any script for either day.                                   *)

TwoDays == {"2025-07-14", "2025-07-15"}

\* the tables in the order in which the chain of stages produces them
ChainOrder == << {"vehicles", "weather", "delay"}, {"veh_minute"},
                 {"veh_minute_w"}, {"veh_minute_w_vanished"}, {"veh_minute_d"},
                 {"veh_minute_ds"}, {"veh_minute_dsw"}, {"veh_minute_scored"},
                 {"veh_minute_ed"} >>

\* a day on which the first n steps of the chain have run
BuiltUpTo(full, n) ==
    [raw      |-> full.raw,
     hist_dir |-> n > 0,
     tab      |-> [t \in TableNames |->
                      IF \E k \in 1..n : t \in ChainOrder[k]
                      THEN full.tab[t] ELSE Absent]]

InitDays ==
    /\ fin = Idle
    /\ fout = NotDone
    /\ free \in {Absent, BuiltFree}
    /\ \E full \in {FullFs[RaceDay]} :
          fs \in [TwoDays -> {BuiltUpTo(full, n) : n \in 0..Len(ChainOrder)}]
    /\ run = NoRun
    /\ GeoIdle

NextDays ==
    \/ run = NoRun /\ \E day \in TwoDays, ap \in BOOLEAN, ow \in BOOLEAN :
                          NightlyEtl(day, ap, ow)
    \/ run = NoRun /\ \E day \in TwoDays, ow \in BOOLEAN : JoinDaily(day, ow)
    \/ run = NoRun /\ \E day \in TwoDays, ow \in BOOLEAN :
                          JoinMinuteWithWeather(day, ow)
    \/ run = NoRun /\ \E day \in TwoDays, flagged \in VanishChoices :
                          DetectVanished(day, flagged)
    \/ run = NoRun /\ \E day \in TwoDays, ow \in BOOLEAN : AddDelayNorm(day, ow)
    \/ run = NoRun /\ BuildFreeflow
    \/ run = NoRun /\ \E day \in TwoDays, ow \in BOOLEAN : AddSpeedNorm(day, ow)
    \/ run = NoRun /\ \E day \in TwoDays, ow \in BOOLEAN : AddWeatherNorm(day, ow)
    \/ run = NoRun /\ \E day \in TwoDays, ow \in BOOLEAN, w \in DeployedWeights :
                          AddStressScore(day, ow, w)
    \/ run = NoRun /\ \E day \in TwoDays, ow \in BOOLEAN : JoinPointsToEd(day, ow)

SpecDays == InitDays /\ [][NextDays]_vars

----------------------------------------------------------------------------
(* Vocabulary of the claims about stage runs *)

PerDayStages == {"nightly_etl", "join_daily", "join_minute_with_weather",
                 "add_delay_norm", "add_speed_norm", "add_weather_norm",
                 "add_stress_score", "join_points_to_ed"}

\* the stages whose command line has --overwrite
OverwriteStages == PerDayStages \ {"nightly_etl", "join_minute_with_weather"}

StageOutputs(stage) ==
    CASE stage = "nightly_etl"              -> {"vehicles", "weather", "delay"}
      [] stage = "join_daily"               -> {"veh_minute"}
      [] stage = "join_minute_with_weather" -> {"veh_minute_w"}
      [] stage = "add_delay_norm"           -> {"veh_minute_d"}
      [] stage = "add_speed_norm"           -> {"veh_minute_ds"}
      [] stage = "add_weather_norm"         -> {"veh_minute_dsw"}
      [] stage = "add_stress_score"         -> {"veh_minute_scored"}
      [] stage = "join_points_to_ed"        -> {"veh_minute_ed"}

StageInputs(stage) ==
    CASE stage = "nightly_etl"              -> {}
      [] stage = "join_daily"               -> {"vehicles", "delay"}
      [] stage = "join_minute_with_weather" -> {"veh_minute", "weather"}
      [] stage = "add_delay_norm"           -> {"veh_minute_w_vanished"}
      [] stage = "add_speed_norm"           -> {"veh_minute_d"}
      [] stage = "add_weather_norm"         -> {"veh_minute_ds"}
      [] stage = "add_stress_score"         -> {"veh_minute_dsw"}
      [] stage = "join_points_to_ed"        -> {"veh_minute_scored"}

OutputExists(fsys, stage, day) ==
    \E t \in StageOutputs(stage) : Exists(fsys, day, t)

\* everything the stage reads for the day is there
InputsPresent(fsys, freeflow, stage, day) ==
    /\ \A t \in StageInputs(stage) : Exists(fsys, day, t)
    /\ stage = "add_speed_norm" => freeflow.exists
    /\ stage = "nightly_etl" =>
          /\ fsys[day].raw.exists
          /\ \A l \in DOMAIN fsys[day].raw.nfiles : fsys[day].raw.nfiles[l] > 0

TableRows(fsys, day, name) ==
    {Rows(fsys, day, name)[i] : i \in 1..Len(Rows(fsys, day, name))}

----------------------------------------------------------------------------
(* Claims *)

\* C1: with weights summing to exactly 1.00 and every normalized input in
\* [0,1] (vanish_anchor a boolean), the row_stress the scorer computes is in
\* [0,1], no clipping being applied.
Thm_C1_RowStressInUnit ==
    (/\ fin.kind = "score" /\ fout.done
     /\ SumW(fin.w) = I(1)
     /\ \A c \in {"delay_norm", "speed_norm", "rain_norm", "heat_norm", "cold_norm"} :
            InUnit(fin.r[c]))
        => InUnit(fout.row_stress)

Wit_C1_AllOnes ==
    /\ fin.kind = "score" /\ fout.done /\ fin.w = W
    /\ fin.r.vanish_anchor /\ fin.r.delay_norm = I(1) /\ fin.r.heat_norm = I(1)
    /\ fout.row_stress = I(1)

\* C2: a weight configuration that does not sum to 1.00 is rejected before
\* scoring: no run of the scorer under such weights writes the scored table.
Claim_C2_BadWeightsRejected ==
    (run.stage = "add_stress_score" /\ SumW(run.w) # I(1)) => run.outcome # "ok"

\* C3: every row of a scored table (written under weights summing to 1.00)
\* has delay_norm, speed_norm, rain_norm, heat_norm, cold_norm and row_stress
\* in [0,1], whatever was missing in the input row.
Claim_C3_ScoredRowsInUnit ==
    (run.stage = "add_stress_score" /\ run.outcome = "ok" /\ SumW(run.w) = I(1))
        => \A r \in TableRows(fs, run.day, "veh_minute_scored") :
               \A c \in {"delay_norm", "speed_norm", "rain_norm", "heat_norm",
                         "cold_norm", "row_stress"} : InUnit(r[c])

Claim_C5_EveryStageForcible ==
    [][ (/\ run'.stage \in PerDayStages
         /\ run'.overwrite
         /\ OutputExists(fs, run'.stage, run'.day)
         /\ InputsPresent(fs, free, run'.stage, run'.day))
        => run'.outcome = "ok" ]_vars

\* C6: a run that gets past the existence guard while something it requires
\* for the day is absent ends in a fatal error and writes nothing.
Claim_C6_MissingInputIsFatal ==
    [][ (/\ run'.stage \in PerDayStages
         /\ ~run'.overwrite
         /\ ~OutputExists(fs, run'.stage, run'.day)
         /\ ~fs[run'.day].hist_dir \/ run'.stage # "nightly_etl"
         /\ ~InputsPresent(fs, free, run'.stage, run'.day))
        => (run'.outcome = "fatal" /\ fs' = fs) ]_vars

\* C7: delay_norm_vec is in [0,1] for every input; a missing delay and any
\* negative delay give 0, any delay of 60 minutes or more gives exactly 1.
Thm_C7_DelayNormRange ==
    (fin.kind = "delay" /\ fout.done)
        => /\ InUnit(fout.a)
           /\ IsNaN(fin.a) => fout.a = I(0)
           /\ RLt(fin.a, I(0)) => fout.a = I(0)
           /\ RGe(fin.a, I(60 * 60)) => fout.a = I(1)

Wit_C7_NegativeAndHuge ==
    /\ fin.kind = "delay" /\ fout.done
    /\ fin.a = I(0 - 600) /\ fout.a = I(0)
    /\ fin.b = I(MaxDelaySec) /\ fout.b = I(1)

\* C8: delay_norm_vec is non-decreasing: d1 <= d2 implies
\* delay_norm(d1) <= delay_norm(d2), across the bucket edges too.
Thm_C8_DelayNormMonotone ==
    (fin.kind = "delay" /\ fout.done /\ RLe(fin.a, fin.b)) => RLe(fout.a, fout.b)

Wit_C8_AcrossEdge ==
    /\ fin.kind = "delay" /\ fout.done
    /\ fin.a = I(900) /\ fin.b = I(901) /\ RLt(fout.a, fout.b)

\* C9: delay_norm_vec is continuous at the bucket edges: 5 min gives 0.30,
\* 15 min gives 0.70, 60 min gives 1.00, each edge falling in the lower bucket,
\* and one second across an edge changes the value by at most 1/1000.
Thm_C9_DelayNormEdges ==
    (fin.kind = "delay" /\ fout.done)
        => /\ fin.a = I(300)  => (fout.a = Q(30, 100) /\ fout.bucket_a = 1)
           /\ fin.a = I(900)  => (fout.a = Q(70, 100) /\ fout.bucket_a = 2)
           /\ fin.a = I(3600) => (fout.a = I(1) /\ fout.bucket_a = 3)
           /\ (fin.a \in {I(300), I(900), I(3600)} /\ fin.b = RAdd(fin.a, I(1)))
                 => (RLe(fout.a, fout.b) /\ RLe(RSub(fout.b, fout.a), Q(1, 1000)))

Wit_C9_FiveMinutes ==
    /\ fin.kind = "delay" /\ fout.done
    /\ fin.a = I(300) /\ fout.a = Q(30, 100) /\ fin.b = I(301)

\* C10: heat_norm is 0 at or below 18 C and for a missing temperature, 0.30 at
\* 21, 0.70 at 24, 1.00 at 27 and 1.00 above 27.
Thm_C10_HeatNormValues ==
    (fin.kind = "heat" /\ fout.done)
        => /\ (IsNaN(fin.t) \/ RLe(fin.t, I(18))) => fout.v = I(0)
           /\ fin.t = I(21) => fout.v = Q(30, 100)
           /\ fin.t = I(24) => fout.v = Q(70, 100)
           /\ fin.t = I(27) => fout.v = I(1)
           /\ RGt(fin.t, I(27)) => fout.v = I(1)

Wit_C10_FortyDegrees ==
    fin.kind = "heat" /\ fout.done /\ fin.t = I(40) /\ fout.v = I(1)

\* C11: cold_norm is 0 at or above 10 C and for a missing temperature, 0.30 at
\* 5, 0.70 at 0, 1.00 at -5, and 1.00 for every temperature below -5.
Thm_C11_ColdNormValues ==
    (fin.kind = "cold" /\ fout.done)
        => /\ (IsNaN(fin.t) \/ RGe(fin.t, I(10))) => fout.v = I(0)
           /\ fin.t = I(5) => fout.v = Q(30, 100)
           /\ fin.t = I(0) => fout.v = Q(70, 100)
           /\ fin.t = I(0 - 5) => fout.v = I(1)
           /\ RLt(fin.t, I(0 - 5)) => fout.v = I(1)

Wit_C11_MinusTwenty ==
    fin.kind = "cold" /\ fout.done /\ fin.t = I(0 - 20) /\ fout.v = I(1)

\* C12: speed_norm is 0 for every speed below 5 km/h whatever the free-flow
\* value; for a speed of 5 km/h or more and a present free-flow value it is
\* 1 - speed/max(free_kph, 0.001) clipped to [0,1], so 0 at or above free flow.
Thm_C12_SpeedNormValues ==
    (fin.kind = "speed" /\ fout.done)
        => /\ RLt(fin.a, I(5)) => fout.a = I(0)
           /\ (RGe(fin.a, I(5)) /\ ~IsNaN(fin.f)) =>
                 LET m == IF RGt(fin.f, Q(1, 1000)) THEN fin.f ELSE Q(1, 1000)
                 IN  /\ InUnit(fout.a)
                     /\ RGe(fin.a, m) => fout.a = I(0)
                     /\ RLt(fin.a, m) => RAdd(RMul(fout.a, m), fin.a) = m
                     /\ RGe(fin.a, fin.f) => fout.a = I(0)

Wit_C12_DwellAndMoving ==
    /\ fin.kind = "speed" /\ fout.done /\ fin.f = I(50)
    /\ fin.a = I(20) /\ fout.a = Q(3, 5)
    /\ RLt(fin.b, I(5)) /\ fout.b = I(0)

\* C13 (as stated): for a fixed free-flow speed and any two speeds s1 <= s2,
\* on either side of the 5 km/h dwell threshold, speed_norm(s1) >= speed_norm(s2).
Claim_C13_SpeedNormMonotone ==
    (fin.kind = "speed" /\ fout.done /\ ~IsNaN(fin.f) /\ RLe(fin.a, fin.b))
        => RGe(fout.a, fout.b)

\* C13 (amended): for a fixed free-flow speed and two speeds s1 <= s2 on the
\* same side of the 5 km/h dwell threshold, speed_norm(s1) >= speed_norm(s2).
Thm_C13_SpeedNormMonotoneSameSide ==
    (/\ fin.kind = "speed" /\ fout.done /\ ~IsNaN(fin.f) /\ RLe(fin.a, fin.b)
     /\ RGe(fin.a, I(5)) <=> RGe(fin.b, I(5)))
        => RGe(fout.a, fout.b)

Wit_C13_TenAndTwenty ==
    /\ fin.kind = "speed" /\ fout.done /\ fin.f = I(50)
    /\ fin.a = I(10) /\ fin.b = I(20)
    /\ fout.a = Q(4, 5) /\ fout.b = Q(3, 5)

\* the weather records of a table, and the distance in seconds between the
\* minute of a vehicle row and the minute of a weather timestamp
WeatherOf(w) == {w[i] : i \in 1..Len(w)}
MinuteGap(r, ts) == Abs(FloorMinute(r.timestamp) - FloorMinute(ts))

\* C14: the join attaches no weather record whose minute is more than 7 min
\* 30 s from the vehicle-minute's minute; a row whose zone has no record
\* within that distance has null rain_mm and temp_c, and every input row is
\* still emitted.
Thm_C14_NoMatchBeyondTolerance ==
    (fin.kind = "join" /\ fout.done)
        => /\ Len(fout.rows) = Len(fin.v)
           /\ \A i \in 1..Len(fout.merged) :
                 LET r == fout.merged[i]
                 IN  /\ ~IsNaN(r.timestamp_w) =>
                           MinuteGap(r, r.timestamp_w.n) <= 7 * 60 + 30
                     /\ (\A c \in WeatherOf(fin.w) :
                            c.zone = r.zone =>
                                MinuteGap(r, c.timestamp) > 7 * 60 + 30)
                          => /\ IsNaN(fout.rows[i].rain_mm)
                             /\ IsNaN(fout.rows[i].temp_c)
                             /\ IsNaN(r.timestamp_w)

Wit_C14_EightMinutesAway ==
    /\ fin.kind = "join" /\ fout.done
    /\ \E i \in 1..Len(fout.rows) :
          /\ fout.rows[i].zone = "centre" /\ fout.rows[i].timestamp = 485
          /\ IsNaN(fout.rows[i].rain_mm)
          /\ \E c \in WeatherOf(fin.w) : c.zone = "centre" /\ c.timestamp = 30

\* C15: the weather record attached to a vehicle-minute is of the row's own
\* zone and is, among that zone's records, at minimal time distance.
Thm_C15_ZonePartitioned ==
    (fin.kind = "join" /\ fout.done)
        => \A i \in 1..Len(fout.merged) :
               LET r == fout.merged[i]
               IN  ~IsNaN(r.timestamp_w) =>
                       /\ r.zone_w = r.zone
                       /\ \E c \in WeatherOf(fin.w) :
                             /\ c.zone = r.zone /\ c.timestamp = r.timestamp_w.n
                             /\ c.rain_mm = fout.rows[i].rain_mm
                             /\ c.temp_c = fout.rows[i].temp_c
                       /\ \A c \in WeatherOf(fin.w) :
                             c.zone = r.zone =>
                                 MinuteGap(r, r.timestamp_w.n)
                                     <= MinuteGap(r, c.timestamp)

Wit_C15_CloserRecordElsewhere ==
    /\ fin.kind = "join" /\ fout.done
    /\ \E i \in 1..Len(fout.merged) :
          /\ fout.merged[i].zone = "centre" /\ fout.merged[i].timestamp = 485
          /\ fout.merged[i].timestamp_w = I(845)
          /\ \E c \in WeatherOf(fin.w) : c.zone = "north" /\ c.timestamp = 490

\* the stages from the weather join through the scorer, with the table of
\* vehicle-minutes each reads and the table it writes
RowStages == {"join_minute_with_weather", "add_delay_norm", "add_speed_norm",
              "add_weather_norm", "add_stress_score"}
RowInput(stage) ==
    IF stage = "join_minute_with_weather" THEN "veh_minute"
    ELSE CHOOSE t \in StageInputs(stage) : TRUE
RowOutput(stage) == CHOOSE t \in StageOutputs(stage) : TRUE

\* out holds each row of in as often as in does, with in's columns unchanged
CarriesRows(in, out) ==
    /\ Len(out) = Len(in)
    /\ \A j \in 1..Len(out) : \A i \in 1..Len(in) : DOMAIN in[i] \subseteq DOMAIN out[j]
    /\ \A i \in 1..Len(in) :
          Cardinality({k \in 1..Len(in) : in[k] = in[i]})
              = Cardinality({j \in 1..Len(out) :
                                [c \in DOMAIN in[i] |-> out[j][c]] = in[i]})

\* C16: the weather join, the three normalizers and the scorer each write
\* exactly one row per input row, the input's columns carried through
\* unchanged.
Thm_C16_OneRowPerInputRow ==
    (run.stage \in RowStages /\ run.outcome = "ok")
        => CarriesRows(Rows(fs, run.day, RowInput(run.stage)),
                       Rows(fs, run.day, RowOutput(run.stage)))

Wit_C16_SpeedNormSixRows ==
    /\ run.stage = "add_speed_norm" /\ run.outcome = "ok"
    /\ Len(Rows(fs, run.day, "veh_minute_ds")) = 6
    /\ \E r \in TableRows(fs, run.day, "veh_minute_ds") : IsNaN(r.free_kph)
    /\ \E r \in TableRows(fs, run.day, "veh_minute_ds") : ~IsNaN(r.free_kph)

\* the anchors in canonical order and the distance of a row to each
AnchorDist(r, z) == hav_km(r.lat, r.lon, ZONES(z).lat, ZONES(z).lon)
Numeric(r) == ~IsNaN(r.lat) /\ ~IsNaN(r.lon)

\* C17: a row with numeric coordinates gets the zone of minimum great-circle
\* distance, on an exact tie the first of north, centre, south; two rows with
\* the same coordinates get the same zone.
Thm_C17_NearestAnchorFirstOnTie ==
    (fin.kind = "join" /\ fout.done)
        => /\ \A i \in 1..Len(fout.rows) :
                 LET r == fout.rows[i]
                     order == <<"north", "centre", "south">>
                     pos == CHOOSE k \in 1..3 : order[k] = r.zone
                 IN  Numeric(r) =>
                       /\ r.zone \in {"north", "centre", "south"}
                       /\ \A k \in 1..3 :
                             RLe(AnchorDist(r, r.zone), AnchorDist(r, order[k]))
                       /\ \A k \in 1..(pos - 1) :
                             RLt(AnchorDist(r, r.zone), AnchorDist(r, order[k]))
           /\ \A i, j \in 1..Len(fout.rows) :
                 (/\ Numeric(fout.rows[i])
                  /\ fout.rows[i].lat = fout.rows[j].lat
                  /\ fout.rows[i].lon = fout.rows[j].lon)
                     => fout.rows[i].zone = fout.rows[j].zone

Wit_C17_TieGoesNorth ==
    /\ fin.kind = "join" /\ fout.done
    /\ \E i \in 1..Len(fout.rows) :
          /\ Numeric(fout.rows[i])
          /\ AnchorDist(fout.rows[i], "north") = AnchorDist(fout.rows[i], "centre")
          /\ fout.rows[i].zone = "north"

\* C18: a row with a missing latitude or longitude gets no zone (none of the
\* three zone names) and no zone's weather record.
Claim_C18_MissingCoordsNoZone ==
    (fin.kind = "join" /\ fout.done)
        => \A i \in 1..Len(fout.merged) :
               ~Numeric(fout.merged[i]) =>
                   /\ fout.merged[i].zone \notin {"north", "centre", "south"}
                   /\ IsNaN(fout.merged[i].timestamp_w)

\* metres on the ground from a row to the nearest segment of a non-empty table
NearestGround(r, segs) ==
    LET k == CHOOSE k \in 1..Len(segs) :
                 \A m \in 1..Len(segs) :
                     RLe(GroundDist(r.lat, segs[k]), GroundDist(r.lat, segs[m]))
    IN  GroundDist(r.lat, segs[k])

\* C19: a point is in the snapped output exactly when its nearest segment is
\* at most 50 m away (50 m included), and when every point is farther than
\* 50 m from every segment the corridor aggregation has no row.
Claim_C19_SnapWithinFiftyMetres ==
    (fin.kind = "snap" /\ fout.done /\ fin.segs # << >>)
        => /\ \A k \in 1..Len(fin.df) :
                 Numeric(fin.df[k]) =>
                     ((\E j \in 1..Len(fout.snapped) : fout.snapped[j].row = k)
                        <=> RLe(NearestGround(fin.df[k], fin.segs), I(50)))
           /\ (\A k \in 1..Len(fin.df) :
                  Numeric(fin.df[k]) =>
                      RGt(NearestGround(fin.df[k], fin.segs), I(50)))
                => fout.stats = << >>

\* the points of a frame that lie within polygon p
PointsWithin(df, p) ==
    {k \in 1..Len(df) : Numeric(df[k]) /\ RLt(p.lo, df[k].lat) /\ RLt(df[k].lat, p.hi)}

\* C20: whatever the metric, the polygon aggregation returns a result in
\* which every polygon with no point assigned is present with n = 0,
\* count_hi = 0, share_hi = 0.0 and value = 0.0, also for an empty input.
Claim_C20_EmptyPolygonZeroRow ==
    (fin.kind = "ed_agg" /\ fout.done)
        => /\ fout.outcome = "ok"
           /\ \A p \in {load_eds(fin.geo)[i] : i \in 1..Len(fin.geo)} :
                 PointsWithin(fin.df, p) = {} =>
                     \E i \in 1..Len(fout.rows) :
                         /\ fout.rows[i].ed_id = p.ed_id
                         /\ fout.rows[i].n = 0
                         /\ fout.rows[i].count_hi = 0
                         /\ fout.rows[i].share_hi = I(0)
                         /\ fout.rows[i].value = I(0)

RECURSIVE NatSum(_)
NatSum(xs) == IF xs = << >> THEN 0 ELSE Head(xs) + NatSum(Tail(xs))

\* C21: each vehicle-minute is assigned to at most one census polygon: no
\* input point contributes more than one row to the joined table, and the
\* polygons' n together count no point twice, whatever the polygon set,
\* overlapping polygons included.
Claim_C21_AtMostOnePolygon ==
    /\ (fin.kind = "ed_join" /\ fout.done)
          => \A k \in 1..Len(fin.df) :
                Cardinality({j \in 1..Len(fout.joined) :
                               fout.joined[j].timestamp = fin.df[k].timestamp}) <= 1
    /\ (fin.kind = "ed_agg" /\ fout.done /\ fout.outcome = "ok")
          => NatSum(MapSeq(LAMBDA r : r.n, fout.rows))
               <= Len(SelectSeq(fin.df, Numeric))

\* the speeds of df at or above the floor for one (route, direction)
MovingSpeeds(df, k) ==
    {df[i].speed_kph : i \in {j \in 1..Len(df) :
                                 /\ df[j].route_id = k.route_id
                                 /\ df[j].direction_id = k.direction_id
                                 /\ ~IsNaN(df[j].speed_kph)
                                 /\ ~RLt(df[j].speed_kph, I(10))}}

FreeEntries(rows, k) ==
    {i \in 1..Len(rows) : rows[i].route_id = k.route_id
                          /\ rows[i].direction_id = k.direction_id}

\* C22: the free-flow table is computed only from the samples with speed
\* >= 10 km/h, 10 included and missing speeds excluded: removing the samples
\* below 10 or without a speed leaves the table unchanged, a (route,
\* direction) has an entry exactly when it has a sample >= 10, and every
\* entry lies between the least and the greatest such sample, so it is > 0.
Thm_C22_FreeflowFromMovingOnly ==
    (fin.kind = "freeflow" /\ fout.done)
        => /\ fout.rows = FreeflowRows(SelectSeq(fin.df,
                               LAMBDA r : ~IsNaN(r.speed_kph)
                                          /\ ~RLt(r.speed_kph, I(10))))
           /\ \A j \in 1..Len(FreeKeys) :
                 LET S == MovingSpeeds(fin.df, FreeKeys[j])
                     E == FreeEntries(fout.rows, FreeKeys[j])
                 IN  /\ S = {} => E = {}
                     /\ S # {} => Cardinality(E) = 1
                     /\ \A i \in E :
                           /\ RGt(fout.rows[i].free_kph, I(0))
                           /\ \E lo \in S : RLe(lo, fout.rows[i].free_kph)
                           /\ \E hi \in S : RLe(fout.rows[i].free_kph, hi)
           /\ \A i \in 1..Len(fout.rows) :
                 \E j \in 1..Len(FreeKeys) : i \in FreeEntries(fout.rows, FreeKeys[j])

\* a route whose only usable sample is exactly 10 km/h, next to a slower
\* sample and a missing one, gets the entry 10
Wit_C22_ExactlyTen ==
    /\ fin.kind = "freeflow" /\ fout.done
    /\ \E i \in 1..Len(fin.df) : fin.df[i].speed_kph = I(5)
    /\ \E i \in 1..Len(fin.df) : IsNaN(fin.df[i].speed_kph)
    /\ MovingSpeeds(fin.df, FreeKeys[1]) = {I(10)}
    /\ \E i \in 1..Len(fout.rows) : fout.rows[i].free_kph = I(10)

GeoCalls == {"app_start", "corridor_stats_filtered"}

\* positions in the shape table of the points of one shape
PtsOf(shp, sid) == {i \in 1..Len(shp) : shp[i].shape_id = sid}

\* how many points of its shape come before point a in sequence order
SeqRank(shp, a) ==
    Cardinality({c \in PtsOf(shp, shp[a].shape_id) : shp[c].seq < shp[a].seq})

\* C26: a call of build_segments that builds emits, for each shape, exactly
\* one two-point segment per consecutive pair of its points in ascending
\* sequence order, n-1 segments for n points and none for n <= 1, under
\* the key {shape_id}_{seq}, which no two segments share; a build that
\* finds no pair at all emits nothing.
Thm_C26_OneSegmentPerConsecutivePair ==
    /\ (run.stage \in GeoCalls /\ run.wrote)
          => LET shp == shapes.rows
                 seg == run.seg
             IN  /\ \A k \in 1..Len(ShapeIds) :
                       LET P == PtsOf(shp, ShapeIds[k])
                           S == {j \in 1..Len(seg) : seg[j].shape_id = ShapeIds[k]}
                       IN  /\ Cardinality(S) =
                                 IF Cardinality(P) <= 1 THEN 0 ELSE Cardinality(P) - 1
                           /\ \A a, b \in P :
                                 SeqRank(shp, b) = SeqRank(shp, a) + 1
                                   => \E j \in S :
                                        /\ seg[j].seq = SeqRank(shp, a)
                                        /\ {seg[j].lo, seg[j].hi} = {shp[a].lat, shp[b].lat}
                                        /\ RLe(seg[j].lo, seg[j].hi)
                 /\ \A j \in 1..Len(seg) :
                       /\ \E k \in 1..Len(ShapeIds) : seg[j].shape_id = ShapeIds[k]
                       /\ seg[j].segment_id = seg[j].shape_id \o "_" \o ToString(seg[j].seq)
                 /\ \A i, j \in 1..Len(seg) :
                       seg[i].segment_id = seg[j].segment_id => i = j
                 /\ cache = File(seg)
    /\ (run.stage \in GeoCalls /\ run.read_shapes /\ ~run.wrote)
          => /\ run.seg = << >>
             /\ \A k \in 1..Len(ShapeIds) :
                   Cardinality(PtsOf(shapes.rows, ShapeIds[k])) <= 1

\* a shape of three points listed out of sequence order has been cut into
\* its two segments sA_0 and sA_1
Wit_C26_ThreePointsTwoSegments ==
    /\ run.stage = "app_start" /\ run.wrote
    /\ Len(shapes.rows) = 3
    /\ \A i \in 1..3 : shapes.rows[i].shape_id = "sA"
    /\ shapes.rows[1].seq = 3 /\ shapes.rows[1].lat = I(0)
    /\ shapes.rows[2].seq = 1 /\ shapes.rows[2].lat = I(100)
    /\ shapes.rows[3].seq = 2 /\ shapes.rows[3].lat = I(100)
    /\ Len(run.seg) = 2
    /\ run.seg[1].segment_id = "sA_0" /\ run.seg[2].segment_id = "sA_1"
    /\ run.seg[2].lo = I(0) /\ run.seg[2].hi = I(100)

\* C23: build_segments builds and writes the cache only when the cache file
\* is absent: over any sequence of calls the cache is written at most once,
\* and a call made while the cache exists returns the cached content, does
\* not read the shape table and does not write the cache.
Thm_C23_CacheBuiltOnce ==
    [][ /\ writes' <= 1
        /\ run'.stage \in GeoCalls
        /\ run'.wrote => (~cache.exists /\ writes' = writes + 1)
        /\ ~run'.wrote => (cache' = cache /\ writes' = writes)
        /\ cache.exists => /\ cache' = cache
                           /\ writes' = writes
                           /\ run'.outcome = "ok"
                           /\ run'.seg = cache.rows
                           /\ ~run'.read_shapes
                           /\ ~run'.wrote ]_vars

\* the corridor ranking was served from the cache that the dashboard's start
\* had built from the shape table
Wit_C23_SecondCallServedFromCache ==
    /\ writes = 1
    /\ run.stage = "corridor_stats_filtered"
    /\ run.outcome = "ok" /\ ~run.read_shapes /\ ~run.wrote
    /\ cache = File(BuildSegmentRows(shapes.rows))
    /\ run.seg = cache.rows
    /\ cache # File(SegmentSample)

\* C24: a reader never observes a half-written segment cache or free-flow
\* table: under any interleaving with a build, a run of build_segments or
\* add_speed_norm that found the file present has read a complete artifact.
Claim_C24_ReaderSeesCompleteArtifact ==
    \A p \in DOMAIN pc :
        (pc[p].found /\ pc[p].got # "none") => pc[p].got = "complete"

\* C27: snap_minutes attaches the nearest segment to each vehicle-minute
\* row: every input row appears at most once in the snapped output, with
\* one segment_id, so it enters the statistics of at most one segment, also
\* when two segments are equally near.
Claim_C27_AtMostOneSegment ==
    (fin.kind = "snap" /\ fout.done)
        => \A k \in 1..Len(fin.df) :
              /\ Cardinality({j \in 1..Len(fout.snapped) :
                                 fout.snapped[j].row = fin.df[k].row}) <= 1
              /\ Cardinality({fout.snapped[j].segment_id :
                                 j \in {i \in 1..Len(fout.snapped) :
                                           fout.snapped[i].row = fin.df[k].row}}) <= 1

\* C28: a point that matches no census polygon, or no segment within the
\* distance bound, is left out of that view only: the aggregation raises no
\* error, each polygon's n counts exactly the points inside it, and no
\* segment's statistics take in a point farther than 50 m from every
\* segment.
Claim_C28_NonMatchOnlyExcluded ==
    /\ (fin.kind = "ed_agg" /\ fout.done)
          => /\ fout.outcome = "ok"
             /\ \A i \in 1..Len(fout.rows) :
                   fout.rows[i].n =
                       Cardinality(PointsWithin(fin.df, load_eds(fin.geo)[i]))
    /\ (fin.kind = "snap" /\ fout.done /\ fin.segs # << >>)
          => \A j \in 1..Len(fout.snapped) :
                RLe(NearestGround(fin.df[fout.snapped[j].row], fin.segs),
                    I(MAX_DIST_M))

Downstream(stage) ==
    CASE stage = "add_delay_norm"   -> {"add_speed_norm", "add_weather_norm",
                                        "add_stress_score", "join_points_to_ed"}
      [] stage = "add_speed_norm"   -> {"add_weather_norm", "add_stress_score",
                                        "join_points_to_ed"}
      [] stage = "add_weather_norm" -> {"add_stress_score", "join_points_to_ed"}
      [] stage = "add_stress_score" -> {"join_points_to_ed"}
      [] OTHER                      -> {}

\* C30: a run with overwrite rewrites only that stage's own output file:
\* every other table of the day, the downstream outputs among them, and the
\* free-flow table are as before, and a run of a stage without overwrite
\* whose output is present skips, so a downstream output stays as it was
\* until that stage is itself forced.
Thm_C30_OverwriteOnlyOwnOutput ==
    [][ /\ (run'.stage \in OverwriteStages /\ run'.overwrite)
            => /\ \A t \in TableNames \ StageOutputs(run'.stage) :
                     fs'[run'.day].tab[t] = fs[run'.day].tab[t]
               /\ \A d \in Days \ {run'.day} : fs'[d] = fs[d]
               /\ fs'[run'.day].raw = fs[run'.day].raw
               /\ free' = free
        /\ \A up \in OverwriteStages :
              (/\ run'.stage \in Downstream(up)
               /\ ~run'.overwrite
               /\ OutputExists(fs, run'.stage, run'.day))
                => (run'.outcome = "skipped" /\ fs' = fs) ]_vars

\* add_delay_norm was forced after the vanish flags had changed, and the
\* speed stage, run again without overwrite, skipped: veh_minute_ds is not
\* what add_speed_norm would compute from the rebuilt veh_minute_d
Wit_C30_StaleDownstream ==
    /\ run.stage = "add_speed_norm" /\ ~run.overwrite /\ run.outcome = "skipped"
    /\ Exists(fs, run.day, "veh_minute_d") /\ Exists(fs, run.day, "veh_minute_ds")
    /\ free.exists
    /\ Rows(fs, run.day, "veh_minute_d")
         = AddDelayNormRows(Rows(fs, run.day, "veh_minute_w_vanished"))
    /\ Rows(fs, run.day, "veh_minute_ds")
         # AddSpeedNormRows(Rows(fs, run.day, "veh_minute_d"), free.rows)
    /\ \E i \in 1..Len(Rows(fs, run.day, "veh_minute_d")) :
          Rows(fs, run.day, "veh_minute_d")[i].vanish_anchor
            # Rows(fs, run.day, "veh_minute_ds")[i].vanish_anchor

\* a command line of a per-day stage, and what running it does to the files
StageRuns ==
    {[stage |-> st, overwrite |-> ow, ap |-> ap, w |-> w] :
        st \in PerDayStages, ow \in BOOLEAN, ap \in BOOLEAN, w \in DeployedWeights}

RunStage(c, fsys, freeflow, day) ==
    CASE c.stage = "nightly_etl" -> nightly_etl_main(fsys, day, c.ap, c.overwrite)
      [] c.stage = "join_daily"  -> join_daily_main(fsys, day, c.overwrite)
      [] c.stage = "join_minute_with_weather"
                                 -> join_minute_with_weather_main(fsys, day, c.overwrite)
      [] c.stage = "add_delay_norm"
                                 -> add_delay_norm_main(fsys, day, c.overwrite)
      [] c.stage = "add_speed_norm"
                                 -> add_speed_norm_main(fsys, freeflow, day, c.overwrite)
      [] c.stage = "add_weather_norm"
                                 -> add_weather_norm_main(fsys, day, c.overwrite)
      [] c.stage = "add_stress_score"
                                 -> add_stress_score_main(fsys, c.w, day, c.overwrite)
      [] c.stage = "join_points_to_ed"
                                 -> join_points_to_ed_main(fsys, day, c.overwrite)

\* the file system with every day but one emptied
OnlyDay(fsys, day) ==
    [d \in DOMAIN fsys |->
        IF d = day THEN fsys[d]
        ELSE [raw |-> [exists |-> FALSE, nfiles |-> NoFeeds],
              hist_dir |-> FALSE, tab |-> NoTables]]

============================================================================
